---- MODULE Spec2Model ----
(***************************************************************************)
(* Model of the CPQ editor's state store: StateManager (src/js/core/       *)
(* utils.js) and the publish/subscribe EventSystem (src/js/core/events.js) *)
(* through which it notifies its watchers.                                 *)
(*                                                                         *)
(* A dotted path is a JavaScript string; it is modelled as the sequence of *)
(* its characters, so that split('.') and startsWith() are computed on     *)
(* characters exactly as the code computes them.                           *)
(***************************************************************************)
EXTENDS Integers, Sequences, FiniteSets, TLC

(***************************************************************************)
(* Bounds of the model.                                                    *)
(***************************************************************************)
\* number of host operations (update, undo, redo, reset) in one behaviour
MaxSteps == 6
\* number of handlers registered for 'state:changed'
MaxWatchers == 7
\* number of host operations in the behaviours that register watchers
MaxWatchSteps == 3
\* number of operations in the behaviours of the page operations
MaxPageSteps == 5
\* number of events in the behaviours of the editable regions
MaxBlockSteps == 5
\* number of events in the behaviours that write pages and copy them
MaxCopySteps == 4
\* number of events in the behaviours of the whole editor
MaxEditorSteps == 3
\* the number of reads and writes of StateManager on its own
MaxPathSteps == 2
\* the number of characters the user types into one editable region
MaxText == 6
\* number of events in the behaviours of the '/' menu
MaxMentionSteps == 7

\* the number of operations in the behaviours that save and load the state
MaxStoreSteps == 5

\* the number of timeouts of saveState that are pending at a time
MaxPending == 1

\* the number of operations in the behaviours of the saves, and the number
\* of their timeouts that are pending at a time
MaxSaveSteps == 4

\* the number of operations in the behaviours of the writes to ui
MaxUiSteps == 5

\* the number of host operations in the behaviours that write paths of the
\* history
MaxHistorySteps == 4
MaxInFlight == 2
\* depth of re-entrant update calls (an update made by a watcher's callback)
MaxDepth == 2

(***************************************************************************)
(* "Limit history size" (utils.js:348).  The code's limit is 50; every     *)
(* snapshot holds the history of its own time, so the size of the state    *)
(* doubles with each commit and 50 commits cannot be enumerated.  The      *)
(* model runs the same code with the limit scaled down; every formula is   *)
(* stated in terms of HistoryLimit.                                        *)
(***************************************************************************)
HistoryLimit == 2

(***************************************************************************)
(* Strings as character sequences.                                         *)
(***************************************************************************)
dot == <<".">>

kDocument == <<"d","o","c","u","m","e","n","t">>
kName == <<"n","a","m","e">>
kPages == <<"p","a","g","e","s">>
kBlocks == <<"b","l","o","c","k","s">>
kContent == <<"c","o","n","t","e","n","t">>
kHeader == <<"h","e","a","d","e","r">>
kFooter == <<"f","o","o","t","e","r">>
kUi == <<"u","i">>
kHistory == <<"h","i","s","t","o","r","y">>
kPast == <<"p","a","s","t">>
kFuture == <<"f","u","t","u","r","e">>
kCurrentPage == <<"c","u","r","r","e","n","t","P","a","g","e">>
kAutoSaveStatus == <<"a","u","t","o","S","a","v","e","S","t","a","t","u","s">>
kActiveTab == <<"a","c","t","i","v","e","T","a","b">>
kActiveElement == <<"a","c","t","i","v","e","E","l","e","m","e","n","t">>
kShowMentionPanel ==
    <<"s","h","o","w","M","e","n","t","i","o","n","P","a","n","e","l">>
kMentionQuery == <<"m","e","n","t","i","o","n","Q","u","e","r","y">>
k0 == <<"0">>
k1 == <<"1">>
k10 == <<"1","0">>

Digits == {"0","1","2","3","4","5","6","7","8","9"}

DigitValue(c) ==
    CASE c = "0" -> 0 [] c = "1" -> 1 [] c = "2" -> 2 [] c = "3" -> 3
      [] c = "4" -> 4 [] c = "5" -> 5 [] c = "6" -> 6 [] c = "7" -> 7
      [] c = "8" -> 8 [] c = "9" -> 9

Last(seq) == seq[Len(seq)]
Front(seq) == SubSeq(seq, 1, Len(seq) - 1)

\* s.startsWith(prefix)
startsWith(s, prefix) ==
    /\ Len(prefix) <= Len(s)
    /\ SubSeq(s, 1, Len(prefix)) = prefix

\* s.split('.'): the maximal dot-free pieces of s, in order
RECURSIVE splitFrom(_, _, _)
splitFrom(s, i, piece) ==
    IF i > Len(s) THEN <<piece>>
    ELSE IF s[i] = "." THEN <<piece>> \o splitFrom(s, i + 1, <<>>)
    ELSE splitFrom(s, i + 1, Append(piece, s[i]))

split(s) == splitFrom(s, 1, <<>>)

\* the dotted string of a sequence of segments
RECURSIVE join(_)
join(parts) ==
    IF Len(parts) = 0 THEN <<>>
    ELSE IF Len(parts) = 1 THEN parts[1]
    ELSE parts[1] \o dot \o join(Tail(parts))

\* the paths the model's callers use
pName == join(<<kDocument, kName>>)
pPages == join(<<kDocument, kPages>>)
pPage0 == join(<<kDocument, kPages, k0>>)
pPage1 == join(<<kDocument, kPages, k1>>)
pPage10 == join(<<kDocument, kPages, k10>>)
pHeader0 == join(<<kDocument, kPages, k0, kHeader>>)
pContent00 == join(<<kDocument, kPages, k0, kBlocks, k0, kContent>>)
pContent01 == join(<<kDocument, kPages, k0, kBlocks, k1, kContent>>)
pCurrentPage == join(<<kUi, kCurrentPage>>)
pAutoSaveStatus == join(<<kUi, kAutoSaveStatus>>)
pActiveTab == join(<<kUi, kActiveTab>>)
pActiveElement == join(<<kUi, kActiveElement>>)
pShowMentionPanel == join(<<kUi, kShowMentionPanel>>)
pMentionQuery == join(<<kUi, kMentionQuery>>)

\* `${n}`: the decimal digits of an index
RECURSIVE numberToString(_)
numberToString(n) ==
    IF n < 10 THEN <<ToString(n)>>
    ELSE numberToString(n \div 10) \o <<ToString(n % 10)>>

\* `document.pages.${pageIndex}.blocks`
pBlocks(pageIndex) ==
    join(<<kDocument, kPages, numberToString(pageIndex), kBlocks>>)

\* `document.pages.${pageIndex}.blocks.${blockIndex}.content`
pContent(pageIndex, blockIndex) ==
    join(<<kDocument, kPages, numberToString(pageIndex), kBlocks,
           numberToString(blockIndex), kContent>>)

\* `document.pages.${pageIndex}.header` and `document.pages.${pageIndex}.footer`
pHeaderOf(pageIndex) ==
    join(<<kDocument, kPages, numberToString(pageIndex), kHeader>>)

pFooterOf(pageIndex) ==
    join(<<kDocument, kPages, numberToString(pageIndex), kFooter>>)

(***************************************************************************)
(* The state tree.  Objects are records, arrays are sequences, null is a   *)
(* string of its own; identifiers made by Utils.generateId are fixed names.*)
(***************************************************************************)
null == "null"

defaultSettings ==
    [size |-> "A4", orientation |-> "portrait",
     padding |-> [top |-> 2, right |-> 2, bottom |-> 2, left |-> 2]]

initialState ==
    [document |->
        [id |-> "doc-1",
         name |-> "Untitled Template",
         pages |-> << [id |-> "page-1", header |-> "", footer |-> "",
                       blocks |-> << [id |-> "block-1", type |-> "text",
                                      content |-> ""] >>,
                       settings |-> defaultSettings] >>],
     ui |->
        [currentPage |-> 0, activeElement |-> null, selectionRange |-> null,
         showMentionPanel |-> FALSE, showStylePanel |-> FALSE,
         mentionQuery |-> "", autoSaveStatus |-> "saved",
         activeTab |-> "create"],
     history |-> [past |-> <<>>, future |-> <<>>]]

\* Utils.deepClone: JSON.parse(JSON.stringify(obj)).  The tree holds only
\* strings, numbers, booleans, null, arrays and objects, which the round trip
\* reproduces; a TLA+ value shares nothing with the value it was copied from.
deepClone(obj) == obj

\* the property name a path segment denotes
KeyName(part) ==
    CASE part = kDocument -> "document"
      [] part = kName -> "name"
      [] part = kPages -> "pages"
      [] part = kBlocks -> "blocks"
      [] part = kContent -> "content"
      [] part = kHeader -> "header"
      [] part = kUi -> "ui"
      [] part = kCurrentPage -> "currentPage"
      [] part = kAutoSaveStatus -> "autoSaveStatus"
      [] part = kActiveTab -> "activeTab"
      [] part = kFooter -> "footer"
      [] part = kActiveElement -> "activeElement"
      [] part = kShowMentionPanel -> "showMentionPanel"
      [] part = kMentionQuery -> "mentionQuery"
      [] part = kHistory -> "history"
      [] part = kPast -> "past"
      [] part = kFuture -> "future"

IsIndex(part) == Len(part) > 0 /\ \A i \in 1..Len(part) : part[i] \in Digits

RECURSIVE ToNumber(_)
ToNumber(part) ==
    IF Len(part) = 0 THEN 0
    ELSE 10 * ToNumber(SubSeq(part, 1, Len(part) - 1)) + DigitValue(part[Len(part)])

\* current[part]'s key: arrays (sequences) count from 1, JavaScript from 0
Key(part) == IF IsIndex(part) THEN ToNumber(part) + 1 ELSE KeyName(part)

\* getValueAtPath's loop, on the segments that are left
RECURSIVE getIn(_, _)
getIn(current, parts) ==
    IF Len(parts) = 0 THEN current
    ELSE getIn(current[Key(parts[1])], Tail(parts))

getValueAtPath(obj, path) == getIn(obj, split(path))

\* setValueAtPath's loop and final assignment, on the segments that are left;
\* a missing intermediate node is created as an empty object
RECURSIVE setIn(_, _, _)
setIn(current, parts, value) ==
    LET key == Key(parts[1])
        has == key \in DOMAIN current
    IN IF Len(parts) = 1
       THEN IF has THEN [current EXCEPT ![key] = value]
            ELSE (key :> value) @@ current
       ELSE IF has THEN [current EXCEPT ![key] = setIn(@, Tail(parts), value)]
            ELSE (key :> setIn(<<>>, Tail(parts), value)) @@ current

(***************************************************************************)
(* Rich text.  An HTML string is the serialisation (innerHTML) of a DOM    *)
(* fragment: a sequence of text nodes and elements, an element having a    *)
(* tag, attributes and child nodes.  The state tree stores the strings.    *)
(***************************************************************************)
Text(data) ==
    [tag |-> "#text", attrs |-> <<>>, children |-> <<>>, data |-> data]

Element(tag, attrs, children) ==
    [tag |-> tag, attrs |-> attrs, children |-> children, data |-> ""]

Attr(name, value) == [name |-> name, value |-> value]

kOn == <<"o","n">>
aOnclick == <<"o","n","c","l","i","c","k">>
aClass == <<"c","l","a","s","s">>
aStyle == <<"s","t","y","l","e">>
aDataHeading == <<"d","a","t","a","-","h","e","a","d","i","n","g">>

\* the string of a sequence of characters
RECURSIVE str(_)
str(chars) == IF Len(chars) = 0 THEN "" ELSE chars[1] \o str(Tail(chars))

RECURSIVE attributesHTML(_)
attributesHTML(attrs) ==
    IF Len(attrs) = 0 THEN ""
    ELSE " " \o str(attrs[1].name) \o "=\"" \o attrs[1].value \o "\""
             \o attributesHTML(Tail(attrs))

\* the elements the serialisation writes without an end tag
voidElements == {"br"}

\* element.innerHTML: the serialisation of the child nodes
RECURSIVE innerHTML(_)
RECURSIVE outerHTML(_)
outerHTML(node) ==
    IF node.tag = "#text" THEN node.data
    ELSE IF node.tag \in voidElements
    THEN "<" \o node.tag \o attributesHTML(node.attrs) \o ">"
    ELSE "<" \o node.tag \o attributesHTML(node.attrs) \o ">"
             \o innerHTML(node.children) \o "</" \o node.tag \o ">"

innerHTML(nodes) ==
    IF Len(nodes) = 0 THEN ""
    ELSE outerHTML(nodes[1]) \o innerHTML(Tail(nodes))

\* scripts.forEach(script => script.remove()) for querySelectorAll('script'):
\* every script element below the root goes, with what it contains
RECURSIVE removeScripts(_)
removeScripts(nodes) ==
    IF Len(nodes) = 0 THEN <<>>
    ELSE LET node == nodes[1]
         IN IF node.tag = "script" THEN removeScripts(Tail(nodes))
            ELSE <<[node EXCEPT !.children = removeScripts(@)]>>
                     \o removeScripts(Tail(nodes))

\* the attributes of one element whose name does not start with 'on'
RECURSIVE removeOn(_)
removeOn(attrs) ==
    IF Len(attrs) = 0 THEN <<>>
    ELSE IF startsWith(attrs[1].name, kOn) THEN removeOn(Tail(attrs))
    ELSE <<attrs[1]>> \o removeOn(Tail(attrs))

\* querySelectorAll('*').forEach: every element loses its on* attributes
RECURSIVE removeOnAttributes(_)
removeOnAttributes(nodes) ==
    IF Len(nodes) = 0 THEN <<>>
    ELSE <<[nodes[1] EXCEPT !.attrs = removeOn(@),
                            !.children = removeOnAttributes(@)]>>
             \o removeOnAttributes(Tail(nodes))

\* what the user can have in an editable region: nothing, text, a paragraph,
\* a pasted script, pasted elements with handlers (one nested in a div)
RawFragments ==
    { <<>>,
      <<Text("a")>>,
      <<Element("p", <<>>, <<Text("b")>>)>>,
      <<Element("script", <<>>, <<Text("x()")>>), Text("a")>>,
      <<Element("p", <<Attr(aOnclick, "x()"), Attr(aClass, "c")>>,
                <<Text("b")>>)>>,
      <<Element("div", <<>>,
                <<Element("script", <<>>, <<>>),
                  Element("p", <<Attr(aOnclick, "x()")>>, <<>>)>>)>> }

(***************************************************************************)
(* What the '/' menu inserts.  The strings insertHeading, insertTable and  *)
(* insertColumns build parse to these fragments.                           *)
(***************************************************************************)
headingNodes(level) ==
    << Element("h" \o ToString(level), <<Attr(aDataHeading, "true")>>,
               <<Text("Heading " \o ToString(level))>>),
       Element("br", <<>>, <<>>) >>

tableStyle == "width:100%;border-collapse:collapse;margin:10px 0;"
thStyle == "border:1px solid #ddd;padding:8px;text-align:left;"
tdStyle == "border:1px solid #ddd;padding:8px;"

tableNodes(rows, cols) ==
    << Element("table", <<Attr(aClass, "cpq-table"), Attr(aStyle, tableStyle)>>,
         << Element("thead", <<>>,
              << Element("tr", <<>>,
                   [c \in 1..cols |->
                      Element("th", <<Attr(aStyle, thStyle)>>,
                              <<Text("Header " \o ToString(c))>>)]) >>),
            Element("tbody", <<>>,
              [r \in 1..rows |->
                 Element("tr", <<>>,
                   [c \in 1..cols |->
                      Element("td", <<Attr(aStyle, tdStyle)>>,
                              <<Text("Cell " \o ToString(r) \o "-"
                                         \o ToString(c))>>)])]) >>),
       Element("p", <<>>, <<Element("br", <<>>, <<>>)>>) >>

columnsStyle == "display:flex;gap:20px;margin:10px 0;"

columnsNodes(count) ==
    << Element("div",
               <<Attr(aClass, "columns columns-" \o ToString(count)),
                 Attr(aStyle, columnsStyle)>>,
               [i \in 1..count |->
                  Element("div", <<Attr(aClass, "column"), Attr(aStyle, "flex:1;")>>,
                          << Text("\n                "),
                             Element("p", <<>>,
                                     <<Text("Column " \o ToString(i)
                                                \o " content")>>),
                             Text("\n            ") >>)]),
       Element("p", <<>>, <<Element("br", <<>>, <<>>)>>) >>

\* the fragments the menu can insert: the catalog's headings, tables and
\* column layouts
PayloadFragments ==
    { headingNodes(level) : level \in 1..3 }
        \cup { tableNodes(n, n) : n \in 2..4 }
        \cup { columnsNodes(count) : count \in 2..4 }

PayloadHTML == [p \in PayloadFragments |-> innerHTML(p)]

(***************************************************************************)
(* An editable region the user types into: the text node that holds the    *)
(* caret (text), then what the menu inserted (payload, with the rest of    *)
(* the text node it split after it).  The user types the characters of     *)
(* Keys and the Tab key, whose handler inserts no-break spaces; a region   *)
(* holds at most MaxText characters.                                       *)
(***************************************************************************)
Keys == {"/", "a", " "}

\* U+00A0, which innerHTML writes as a character reference
nbsp == " "

\* the characters of a text node as innerHTML writes them
serialised(chars) ==
    [i \in 1..Len(chars) |-> IF chars[i] = nbsp THEN "&nbsp;" ELSE chars[i]]

Region(text, payload, after) ==
    [text |-> text, payload |-> payload, after |-> after]

emptyRegion == Region(<<>>, <<>>, <<>>)

\* a text node, its data as innerHTML writes it
textNodes(chars) ==
    IF Len(chars) = 0 THEN <<>> ELSE <<Text(str(serialised(chars)))>>

\* the child nodes of the region
regionNodes(r) == textNodes(r.text) \o r.payload \o textNodes(r.after)

\* the place of the first tag in a string: its length plus one if none
RECURSIVE firstTag(_, _)
firstTag(html, i) ==
    IF i > Len(html) \/ SubSeq(html, i, i) = "<" THEN i
    ELSE firstTag(html, i + 1)

\* the characters of a text node that the parser makes of a string
\* without tags
RECURSIVE parseText(_)
parseText(html) ==
    IF Len(html) = 0 THEN <<>>
    ELSE IF Len(html) >= 6 /\ SubSeq(html, 1, 6) = "&nbsp;"
    THEN <<nbsp>> \o parseText(SubSeq(html, 7, Len(html)))
    ELSE <<SubSeq(html, 1, 1)>> \o parseText(SubSeq(html, 2, Len(html)))

\* p is the fragment that a string starts with
StartsWith(html, p) ==
    /\ Len(html) >= Len(PayloadHTML[p])
    /\ SubSeq(html, 1, Len(PayloadHTML[p])) = PayloadHTML[p]

\* the region a string read from an editable region parses to: text up to
\* the first tag, the elements the menu inserted, text
regionOf(html) ==
    LET i == firstTag(html, 1)
        rest == SubSeq(html, i, Len(html))
        text == parseText(SubSeq(html, 1, i - 1))
    IN IF i > Len(html) THEN Region(text, <<>>, <<>>)
       ELSE LET p == CHOOSE p \in PayloadFragments : StartsWith(rest, p)
            IN Region(text, p,
                      parseText(SubSeq(rest, Len(PayloadHTML[p]) + 1, Len(rest))))

\* the fragments the other HTML strings of the model parse to
Fragments ==
    RawFragments \cup { removeOnAttributes(removeScripts(f)) : f \in RawFragments }

\* tempDiv.innerHTML = html: the fragment the string parses to
parseHtml(html) ==
    IF \E f \in Fragments : innerHTML(f) = html
    THEN CHOOSE f \in Fragments : innerHTML(f) = html
    ELSE regionNodes(regionOf(html))

\* Utils.sanitizeHtml
sanitizeHtml(html) ==
    LET tempDiv == parseHtml(html)
        noScripts == removeScripts(tempDiv)
    IN innerHTML(removeOnAttributes(noScripts))

(***************************************************************************)
(* Utils.generateId: the prefix and nine characters drawn by Math.random.  *)
(* seed counts the draws made so far; the model lets every draw differ     *)
(* from all earlier ones and from the identifiers written out in the       *)
(* model ("page-1", "block-2", ...), which the code does not check: two    *)
(* draws are equal with probability 36^-9.                                 *)
(***************************************************************************)
FirstSeed == 3

generateId(prefix, seed) == prefix \o "-" \o ToString(seed)

(***************************************************************************)
(* The page container of the DOM: the page elements, each with the blocks  *)
(* of its page body, by their data-page-id and data-block-id.              *)
(***************************************************************************)
renderPageFromState(pageData) ==
    [pageId |-> pageData.id,
     blocks |-> [j \in 1..Len(pageData.blocks) |-> pageData.blocks[j].id]]

\* TextEditor's renderDocumentFromState: the container holds the pages of
\* the state and nothing else
renderDocumentFromState(s) ==
    [i \in 1..Len(s.document.pages) |->
        renderPageFromState(s.document.pages[i])]

\* TextEditor's activeEditor: the block of the editable region that has the
\* focus, and whether that element is still in the document
noEditor == [blockId |-> null, attached |-> FALSE]

(***************************************************************************)
(* StateManager and EventSystem.  m is the store with its listeners:       *)
(*   state, changedPaths   the module variables of StateManager            *)
(*   listeners             listeners['state:changed'] of EventSystem       *)
(*   dom, activeEditor     the page container and TextEditor's variable    *)
(*   seed, timers          the draws of Math.random made so far, the       *)
(*                         autosave timeouts that are pending              *)
(*   calls, emitted, commits   a record of what the current operation did: *)
(*                         the callbacks invoked, the events emitted, the  *)
(*                         number of commits                               *)
(***************************************************************************)

\* obj is always StateManager's state
setValueAtPath(m, path, value) ==
    [m EXCEPT !.state = setIn(@, split(path), value),
              !.changedPaths = Append(@, path)]

\* hasPathChanged comparing the strings without the '.' after the prefix
hasPathChangedNoDot(changedPaths, path) ==
    \E i \in 1..Len(changedPaths) :
        LET changedPath == changedPaths[i]
        IN \/ changedPath = path
           \/ startsWith(changedPath, path)
           \/ startsWith(path, changedPath)

hasPathChanged(changedPaths, path) ==
    \E i \in 1..Len(changedPaths) :
        LET changedPath == changedPaths[i]
        IN \/ changedPath = path
           \/ startsWith(changedPath, path \o dot)
           \/ startsWith(path, changedPath \o dot)

\* Object.entries(pathOrUpdates).forEach(setValueAtPath)
RECURSIVE setEntries(_, _)
setEntries(m, entries) ==
    IF Len(entries) = 0 THEN m
    ELSE setEntries(setValueAtPath(m, entries[1].path, entries[1].value),
                    Tail(entries))

\* pushPast refusing the new snapshot once past is full
pushPastKeepOldest(past, prevState) ==
    IF Len(past) >= HistoryLimit THEN past ELSE Append(past, prevState)

\* pushPast putting the new snapshot first
pushPastFront(past, prevState) ==
    LET pushed == <<prevState>> \o past
    IN IF Len(pushed) > HistoryLimit THEN Front(pushed) ELSE pushed

\* the snapshot pushed by update, and the limit on past
pushPast(past, prevState) ==
    LET pushed == Append(past, prevState)
    IN IF Len(pushed) > HistoryLimit THEN Tail(pushed) ELSE pushed

RECURSIVE update(_, _, _)
RECURSIVE forEachListener(_, _, _, _, _)

\* PageManager's watcher of document.pages renders unless the event data
\* names this module as the source; the data is the object update emits
rendersPages(w, data) ==
    /\ w.kind = "init"
    /\ ("source" \notin DOMAIN data \/ data.source # "page-manager")

\* the callback a watcher was registered with
callback(m, w, data, depth) ==
    CASE w.kind = "render" -> m
      [] w.kind = "document" ->
            \* TextEditor's watcher: renderDocumentFromState replaces the
            \* page elements, the old ones leave the document
            [m EXCEPT !.dom = renderDocumentFromState(m.state),
                      !.activeEditor.attached = FALSE]
      [] w.kind = "init" /\ ~rendersPages(w, data) -> m
      [] w.kind = "init" /\ rendersPages(w, data) ->
            \* PageManager's watcher: renderPagesFromState ends with
            \* TextEditor.init(), which registers one more watcher of
            \* document.pages and renders the document itself
            LET m1 == IF Len(m.listeners) < MaxWatchers
                      THEN [m EXCEPT !.listeners =
                               Append(@, [pathArray |-> <<pPages>>,
                                          kind |-> "document",
                                          nested |-> <<>>])]
                      ELSE m
            IN [m1 EXCEPT !.dom = renderDocumentFromState(m1.state),
                          !.activeEditor.attached = FALSE]
      [] w.kind = "update" ->
            IF depth < MaxDepth THEN update(m, w.nested, depth + 1) ELSE m

\* handler invoking the callback once for each watched path that changed
handlerEachPath(m, i, data, depth) ==
    LET w == m.listeners[i]
        matching == { k \in 1..Len(w.pathArray) :
                        hasPathChanged(m.changedPaths, w.pathArray[k]) }
        call == [watcher |-> i, commit |-> data.commit,
                 changedPaths |-> data.changedPaths, live |-> m.state,
                 rendered |-> rendersPages(w, data)]
    IN IF matching # {}
       THEN callback([m EXCEPT !.calls =
                         @ \o [k \in 1..Cardinality(matching) |-> call]],
                     w, data, depth)
       ELSE m

\* the handler StateManager.watch registers for 'state:changed'
handler(m, i, data, depth) ==
    LET w == m.listeners[i]
        shouldUpdate ==
            \E k \in 1..Len(w.pathArray) :
                hasPathChanged(m.changedPaths, w.pathArray[k])
    IN IF shouldUpdate
       THEN callback([m EXCEPT !.calls =
                         Append(@, [watcher |-> i, commit |-> data.commit,
                                    changedPaths |-> data.changedPaths,
                                    live |-> m.state,
                                    rendered |-> rendersPages(w, data)])],
                     w, data, depth)
       ELSE m

\* listeners[event].forEach: the elements present when the loop starts
forEachListener(m, data, i, n, depth) ==
    IF i > n THEN m
    ELSE forEachListener(handler(m, i, data, depth), data, i + 1, n, depth)

\* EventSystem.emit for the events of StateManager; only 'state:changed' has
\* subscribers among them
emit(m, event, data, depth) ==
    LET m1 == [m EXCEPT !.emitted = Append(@, event)]
    IN IF event = "state:changed"
       THEN forEachListener(m1, data, 1, Len(m1.listeners), depth)
       ELSE m1

\* update leaving history.future as it is
updateKeepFuture(m, pathOrUpdates, depth) ==
    LET prevState == deepClone(m.state)
        m0 == [m EXCEPT !.changedPaths = <<>>]
        m1 == IF pathOrUpdates.single
              THEN setValueAtPath(m0, pathOrUpdates.path, pathOrUpdates.value)
              ELSE setEntries(m0, pathOrUpdates.entries)
    IN IF Len(m1.changedPaths) > 0
       THEN LET m2 == [m1 EXCEPT
                          !.state.history.past = pushPast(@, prevState),
                          !.commits = @ + 1]
            IN emit(m2, "state:changed",
                    [changedPaths |-> m2.changedPaths,
                     state |-> deepClone(m2.state),
                     commit |-> m2.commits],
                    depth)
       ELSE m1

\* StateManager.update(pathOrUpdates, value)
update(m, pathOrUpdates, depth) ==
    LET prevState == deepClone(m.state)
        m0 == [m EXCEPT !.changedPaths = <<>>]
        m1 == IF pathOrUpdates.single
              THEN setValueAtPath(m0, pathOrUpdates.path, pathOrUpdates.value)
              ELSE setEntries(m0, pathOrUpdates.entries)
    IN IF Len(m1.changedPaths) > 0
       THEN LET m2 == [m1 EXCEPT
                          !.state.history.past = pushPast(@, prevState),
                          !.state.history.future = <<>>,
                          !.commits = @ + 1]
            IN emit(m2, "state:changed",
                    [changedPaths |-> m2.changedPaths,
                     state |-> deepClone(m2.state),
                     commit |-> m2.commits],
                    depth)
       ELSE m1

\* StateManager.undo
undo(m) ==
    IF Len(m.state.history.past) > 0
    THEN LET newFuture == <<deepClone(m.state)>> \o m.state.history.future
             past == m.state.history.past
             popped == past[Len(past)]
             m1 == [m EXCEPT !.state =
                       [popped EXCEPT !.history.future = newFuture]]
         IN emit(m1, "state:undo", [state |-> deepClone(m1.state)], 1)
    ELSE m

\* redo restoring the document but not the session state
redoKeepsUi(m) ==
    IF Len(m.state.history.future) > 0
    THEN LET newPast == Append(m.state.history.past, deepClone(m.state))
             shifted == Head(m.state.history.future)
             m1 == [m EXCEPT !.state =
                       [shifted EXCEPT !.history.past = newPast,
                                       !.ui = m.state.ui]]
         IN emit(m1, "state:redo", [state |-> deepClone(m1.state)], 1)
    ELSE m

\* redo taking the latest future entry instead of the earliest
redoFromEnd(m) ==
    IF Len(m.state.history.future) > 0
    THEN LET newPast == Append(m.state.history.past, deepClone(m.state))
             shifted == Last(m.state.history.future)
             m1 == [m EXCEPT !.state =
                       [shifted EXCEPT !.history.past = newPast]]
         IN emit(m1, "state:redo", [state |-> deepClone(m1.state)], 1)
    ELSE m

\* StateManager.redo
redo(m) ==
    IF Len(m.state.history.future) > 0
    THEN LET newPast == Append(m.state.history.past, deepClone(m.state))
             shifted == Head(m.state.history.future)
             m1 == [m EXCEPT !.state =
                       [shifted EXCEPT !.history.past = newPast]]
         IN emit(m1, "state:redo", [state |-> deepClone(m1.state)], 1)
    ELSE m

\* StateManager.reset
reset(m) ==
    LET m1 == [m EXCEPT !.state = deepClone(initialState)]
    IN emit(m1, "state:reset", [state |-> deepClone(m1.state)], 1)

\* StateManager.watch(paths, callback): EventSystem.on('state:changed', handler)
watch(m, w) == [m EXCEPT !.listeners = Append(@, w)]

\* update's argument: a path and a value, or an object of paths and values
Single(path, value) ==
    [single |-> TRUE, path |-> path, value |-> value, entries |-> <<>>]

Multi(entries) ==
    [single |-> FALSE, path |-> <<>>, value |-> null, entries |-> entries]

\* StateManager.get(path): a copy of the value at an existing path
get(m, path) == deepClone(getValueAtPath(m.state, path))

\* statement; statement: Body of the value the first statement leaves, which
\* is computed once
Then(value, Body(_)) == CHOOSE result \in { Body(v) : v \in {value} } : TRUE

(***************************************************************************)
(* PageManager (src/js/layouts/page-manager.js).  An index is JavaScript's,*)
(* counted from 0; -1 is findIndex's "not found".                          *)
(***************************************************************************)
\* pages.findIndex(page => page.id === pageId)
findIndex(pages, pageId) ==
    LET hits == { i \in 1..Len(pages) : pages[i].id = pageId }
    IN IF hits = {} THEN -1
       ELSE (CHOOSE i \in hits : \A j \in hits : i <= j) - 1

\* array.splice(index, 0, item) on a copy
insertAt(array, index, item) ==
    SubSeq(array, 1, index) \o <<item>> \o SubSeq(array, index + 1, Len(array))

\* array.splice(index, 1) on a copy
removeAt(array, index) ==
    SubSeq(array, 1, index) \o SubSeq(array, index + 2, Len(array))

max(a, b) == IF a >= b THEN a ELSE b

addNewPage(m) ==
    LET newPage ==
            [id |-> generateId("page", m.seed), header |-> "", footer |-> "",
             blocks |-> << [id |-> generateId("block", m.seed + 1),
                            type |-> "text", content |-> ""] >>,
             settings |-> defaultSettings]
        pages == get(m, pPages)
    IN update([m EXCEPT !.seed = @ + 2],
              Multi(<< [path |-> pPages, value |-> Append(pages, newPage)],
                       [path |-> pCurrentPage, value |-> Len(pages)] >>),
              1)

\* duplicatePage giving a new id to the page but not to its blocks
duplicatePageSameBlocks(m, pageId) ==
    LET pages == get(m, pPages)
        pageIndex == findIndex(pages, pageId)
        newPage == [deepClone(pages[pageIndex + 1]) EXCEPT
                       !.id = generateId("page", m.seed)]
    IN IF pageIndex = -1 THEN m
       ELSE update([m EXCEPT !.seed = @ + 1],
                   Multi(<< [path |-> pPages,
                             value |-> insertAt(pages, pageIndex + 1, newPage)],
                            [path |-> pCurrentPage, value |-> pageIndex + 1] >>),
                   1)

\* duplicatePage putting the copy after the last page
duplicatePageAtEnd(m, pageId) ==
    LET pages == get(m, pPages)
        pageIndex == findIndex(pages, pageId)
        sourcePage == pages[pageIndex + 1]
        newPage ==
            [deepClone(sourcePage) EXCEPT
                !.id = generateId("page", m.seed),
                !.blocks = [j \in 1..Len(sourcePage.blocks) |->
                               [sourcePage.blocks[j] EXCEPT
                                   !.id = generateId("block", m.seed + j)]]]
    IN IF pageIndex = -1 THEN m
       ELSE update([m EXCEPT !.seed = @ + 1 + Len(sourcePage.blocks)],
                   Multi(<< [path |-> pPages, value |-> Append(pages, newPage)],
                            [path |-> pCurrentPage, value |-> Len(pages)] >>),
                   1)

duplicatePage(m, pageId) ==
    LET pages == get(m, pPages)
        pageIndex == findIndex(pages, pageId)
        sourcePage == pages[pageIndex + 1]
        newPage ==
            [deepClone(sourcePage) EXCEPT
                !.id = generateId("page", m.seed),
                !.blocks = [j \in 1..Len(sourcePage.blocks) |->
                               [sourcePage.blocks[j] EXCEPT
                                   !.id = generateId("block", m.seed + j)]]]
        newPages == insertAt(pages, pageIndex + 1, newPage)
    IN IF pageIndex = -1 THEN m
       ELSE update([m EXCEPT !.seed = @ + 1 + Len(sourcePage.blocks)],
                   Multi(<< [path |-> pPages, value |-> newPages],
                            [path |-> pCurrentPage, value |-> pageIndex + 1] >>),
                   1)

\* deletePage leaving ui.currentPage as it is
deletePageKeepCurrent(m, pageId, confirmed) ==
    LET pages == get(m, pPages)
        pageIndex == findIndex(pages, pageId)
    IN IF Len(pages) <= 1 \/ ~confirmed \/ pageIndex = -1 THEN m
       ELSE update(m,
                   Multi(<< [path |-> pPages,
                             value |-> removeAt(pages, pageIndex)],
                            [path |-> pCurrentPage,
                             value |-> get(m, pCurrentPage)] >>),
                   1)

\* deletePage moving the current page only when a page before it goes
deletePageBefore(m, pageId, confirmed) ==
    LET pages == get(m, pPages)
        pageIndex == findIndex(pages, pageId)
        currentPage == get(m, pCurrentPage)
        newCurrentPage == IF currentPage > pageIndex
                          THEN max(0, currentPage - 1)
                          ELSE currentPage
    IN IF Len(pages) <= 1 \/ ~confirmed \/ pageIndex = -1 THEN m
       ELSE update(m,
                   Multi(<< [path |-> pPages,
                             value |-> removeAt(pages, pageIndex)],
                            [path |-> pCurrentPage, value |-> newCurrentPage] >>),
                   1)

\* deletePage without the check for the only page
deletePageOfAny(m, pageId, confirmed) ==
    LET pages == get(m, pPages)
        pageIndex == findIndex(pages, pageId)
        newCurrentPage == max(0, get(m, pCurrentPage) - 1)
    IN IF ~confirmed \/ pageIndex = -1 THEN m
       ELSE update(m,
                   Multi(<< [path |-> pPages,
                             value |-> removeAt(pages, pageIndex)],
                            [path |-> pCurrentPage, value |-> newCurrentPage] >>),
                   1)

\* confirmed is the user's answer to confirm('Are you sure ...')
deletePage(m, pageId, confirmed) ==
    LET pages == get(m, pPages)
        pageIndex == findIndex(pages, pageId)
        newPages == removeAt(pages, pageIndex)
        currentPage == get(m, pCurrentPage)
        newCurrentPage == IF currentPage >= pageIndex
                          THEN max(0, currentPage - 1)
                          ELSE currentPage
    IN IF Len(pages) <= 1 THEN m
       ELSE IF ~confirmed THEN m
       ELSE IF pageIndex = -1 THEN m
       ELSE update(m,
                   Multi(<< [path |-> pPages, value |-> newPages],
                            [path |-> pCurrentPage, value |-> newCurrentPage] >>),
                   1)

\* handleHeaderFooterChange for the header or the footer of a page element,
\* content its innerHTML
handleHeaderFooterChange(m, pageId, isHeader, content) ==
    LET pages == get(m, pPages)
        pageIndex == findIndex(pages, pageId)
    IN IF pageIndex # -1
       THEN IF isHeader
            THEN update(m, Single(pHeaderOf(pageIndex), content), 1)
            ELSE update(m, Single(pFooterOf(pageIndex), content), 1)
       ELSE m

(***************************************************************************)
(* TextEditor (src/unnamed/part_000).  The content of an editable region   *)
(* is the user's: a handler that reads it takes it as html.                *)
(***************************************************************************)
\* pages.forEach(... page.blocks.forEach(...)): the position of the last
\* block with the id, or -1 and -1
findBlock(pages, blockId) ==
    LET hits == UNION { { <<p, b>> : b \in { k \in 1..Len(pages[p].blocks) :
                                                pages[p].blocks[k].id = blockId } } :
                        p \in 1..Len(pages) }
        last == CHOOSE h \in hits :
                    \A g \in hits : g[1] < h[1] \/ (g[1] = h[1] /\ g[2] <= h[2])
    IN IF hits = {} THEN [pageIndex |-> -1, blockIndex |-> -1]
       ELSE [pageIndex |-> last[1] - 1, blockIndex |-> last[2] - 1]

\* document.querySelector(`[data-block-id="${blockId}"]`) finds an element
inDom(container, blockId) ==
    \E i \in 1..Len(container) :
        \E j \in 1..Len(container[i].blocks) : container[i].blocks[j] = blockId

\* the page element (from 1) that holds the first element with the id
domPageOf(container, blockId) ==
    CHOOSE i \in 1..Len(container) :
        /\ \E j \in 1..Len(container[i].blocks) : container[i].blocks[j] = blockId
        /\ \A k \in 1..(i - 1) :
              \A j \in 1..Len(container[k].blocks) : container[k].blocks[j] # blockId

\* the place (from 1) of that element among the blocks of its page body
domBlockOf(container, blockId) ==
    LET blocks == container[domPageOf(container, blockId)].blocks
    IN CHOOSE j \in 1..Len(blocks) :
          blocks[j] = blockId /\ \A k \in 1..(j - 1) : blocks[k] # blockId

\* block.insertAdjacentElement('afterend', newBlock)
insertAdjacentElement(container, blockId, newBlockId) ==
    [container EXCEPT ![domPageOf(container, blockId)].blocks =
        insertAt(@, domBlockOf(container, blockId), newBlockId)]

\* block.remove()
removeElement(container, blockId) ==
    [container EXCEPT ![domPageOf(container, blockId)].blocks =
        removeAt(@, domBlockOf(container, blockId) - 1)]

\* block.previousElementSibling, by its id
previousElementSibling(container, blockId) ==
    LET j == domBlockOf(container, blockId)
    IN IF j = 1 THEN null
       ELSE container[domPageOf(container, blockId)].blocks[j - 1]

(***************************************************************************)
(* The timeouts of the saves.  tasks.order holds the delays of the pending *)
(* ones in the order they were set: of two pending timeouts the one set    *)
(* first runs first unless its delay is the longer one.                    *)
(***************************************************************************)
\* the delays in milliseconds: of saveState, of saveBlockContent and
\* handleSaveTemplate, of publishTemplate
saveStateDelay == 500
autoSaveDelay == 1000
publishDelay == 1500

setTimeout(m, delay) == [m EXCEPT !.tasks.order = Append(@, delay)]

\* the place in the order of the timeout of this delay that was set first
firstOf(order, delay) ==
    CHOOSE i \in 1..Len(order) :
        order[i] = delay /\ \A j \in 1..(i - 1) : order[j] # delay

\* a timeout of this delay may run now
canRun(order, delay) ==
    /\ \E i \in 1..Len(order) : order[i] = delay
    /\ \A j \in 1..(firstOf(order, delay) - 1) : order[j] > delay

\* the timeout has run
timedOut(m, delay) ==
    LET i == firstOf(m.tasks.order, delay)
    IN [m EXCEPT !.tasks.order = SubSeq(@, 1, i - 1) \o SubSeq(@, i + 1, Len(@))]

saveBlockContent(m, blockId, content) ==
    LET sanitizedContent == sanitizeHtml(content)
        at == findBlock(deepClone(m.state).document.pages, blockId)
    IN IF at.pageIndex >= 0 /\ at.blockIndex >= 0
       THEN Then(update(m, Single(pContent(at.pageIndex, at.blockIndex),
                                  sanitizedContent), 1),
                 LAMBDA m1 :
                     setTimeout([update(m1, Single(pAutoSaveStatus, "saving"), 1)
                                    EXCEPT !.timers = @ + 1],
                                autoSaveDelay))
       ELSE m

\* handleEditorFocus for the editable region of a block: setActiveEditor
handleEditorFocus(m, blockId) ==
    IF m.activeEditor.attached /\ m.activeEditor.blockId = blockId
    THEN m
    ELSE update([m EXCEPT !.activeEditor =
                    [blockId |-> blockId, attached |-> TRUE]],
                Single(pActiveElement, blockId), 1)

\* handleEditorBlur for the active editable region, html its content
handleEditorBlur(m, html) == saveBlockContent(m, m.activeEditor.blockId, html)

\* addBlockAfter; html is the content of the region that has the focus when
\* content.focus() takes it away.  The focus event reaches handleEditorFocus
\* (a listener of document) if the new element is still in the document: a
\* save made by the blur handler renders the pages anew.
addBlockAfter(m, blockId, html) ==
    IF ~inDom(m.dom, blockId) THEN m
    ELSE LET newBlockId == generateId("block", m.seed)
             newBlockState == [id |-> newBlockId, type |-> "text", content |-> ""]
             m1 == [m EXCEPT !.seed = @ + 1,
                             !.dom = insertAdjacentElement(@, blockId, newBlockId)]
         IN Then(IF m1.activeEditor.attached THEN handleEditorBlur(m1, html)
                 ELSE m1,
                 LAMBDA m2 :
                   Then(IF inDom(m2.dom, newBlockId)
                        THEN handleEditorFocus(m2, newBlockId)
                        ELSE m2,
                        LAMBDA m3 :
                          LET pages == deepClone(m3.state).document.pages
                              at == findBlock(pages, blockId)
                          IN IF at.pageIndex >= 0 /\ at.blockIndex >= 0
                             THEN update(m3,
                                         Single(pBlocks(at.pageIndex),
                                                insertAt(pages[at.pageIndex + 1].blocks,
                                                         at.blockIndex + 1,
                                                         newBlockState)),
                                         1)
                             ELSE m3))

\* deleteBlock.  After the update the pages are rendered anew, and
\* block.remove() and prevContent.focus() act on elements that have left the
\* document; without it the element is removed and the previous one focused.
deleteBlock(m, blockId) ==
    IF ~inDom(m.dom, blockId) THEN m
    ELSE LET prevBlock == previousElementSibling(m.dom, blockId)
             pages == deepClone(m.state).document.pages
             at == findBlock(pages, blockId)
         IN IF at.pageIndex >= 0 /\ at.blockIndex >= 0
            THEN update(m,
                        Single(pBlocks(at.pageIndex),
                               removeAt(pages[at.pageIndex + 1].blocks,
                                        at.blockIndex)),
                        1)
            ELSE LET m1 == [m EXCEPT
                               !.dom = removeElement(@, blockId),
                               !.activeEditor.attached =
                                   @ /\ m.activeEditor.blockId # blockId]
                 IN IF prevBlock # null THEN handleEditorFocus(m1, prevBlock)
                    ELSE m1

\* the timeout saveBlockContent sets: "Simulate autosave after delay"
autosaved(m) ==
    update(timedOut([m EXCEPT !.timers = @ - 1], autoSaveDelay),
           Single(pAutoSaveStatus, "saved"), 1)

\* handleEditorKeydown for Backspace in the active editable region when it is
\* empty: the guard counts the blocks of its page body
keydownBackspace(m) ==
    LET blockId == m.activeEditor.blockId
        allBlocks == m.dom[domPageOf(m.dom, blockId)].blocks
    IN IF Len(allBlocks) > 1 THEN deleteBlock(m, blockId) ELSE m

\* handleEditorKeydown for Enter at the end of the active editable region
keydownEnter(m, html) == addBlockAfter(m, m.activeEditor.blockId, html)

(***************************************************************************)
(* MentionSystem (src/js/editor/mention.js): the panel of suggestions that *)
(* '/' opens.  Labels, descriptions and queries are sequences of           *)
(* characters.                                                             *)
(***************************************************************************)
suggestions ==
    << [id |-> "h1", type |-> "heading", level |-> 1,
        label |-> <<"H","e","a","d","i","n","g"," ","1">>,
        description |->
            <<"B","i","g"," ","s","e","c","t","i","o","n"," ","h","e","a","d","i","n","g">>],
       [id |-> "h2", type |-> "heading", level |-> 2,
        label |-> <<"H","e","a","d","i","n","g"," ","2">>,
        description |->
            <<"M","e","d","i","u","m"," ","s","e","c","t","i","o","n"," ","h","e","a","d","i","n","g">>],
       [id |-> "h3", type |-> "heading", level |-> 3,
        label |-> <<"H","e","a","d","i","n","g"," ","3">>,
        description |->
            <<"S","m","a","l","l"," ","s","e","c","t","i","o","n"," ","h","e","a","d","i","n","g">>],
       [id |-> "table", type |-> "table", rows |-> 3, cols |-> 3,
        label |-> <<"T","a","b","l","e">>,
        description |->
            <<"I","n","s","e","r","t"," ","a"," ","t","a","b","l","e">>],
       [id |-> "table-2x2", type |-> "table", rows |-> 2, cols |-> 2,
        label |-> <<"T","a","b","l","e"," ","2","×","2">>,
        description |->
            <<"I","n","s","e","r","t"," ","a"," ","2","×","2"," ","t","a","b","l","e">>],
       [id |-> "table-3x3", type |-> "table", rows |-> 3, cols |-> 3,
        label |-> <<"T","a","b","l","e"," ","3","×","3">>,
        description |->
            <<"I","n","s","e","r","t"," ","a"," ","3","×","3"," ","t","a","b","l","e">>],
       [id |-> "table-4x4", type |-> "table", rows |-> 4, cols |-> 4,
        label |-> <<"T","a","b","l","e"," ","4","×","4">>,
        description |->
            <<"I","n","s","e","r","t"," ","a"," ","4","×","4"," ","t","a","b","l","e">>],
       [id |-> "cols-2", type |-> "columns", count |-> 2,
        label |-> <<"2"," ","C","o","l","u","m","n","s">>,
        description |->
            <<"I","n","s","e","r","t"," ","2","-","c","o","l","u","m","n"," ","l","a","y","o","u","t">>],
       [id |-> "cols-3", type |-> "columns", count |-> 3,
        label |-> <<"3"," ","C","o","l","u","m","n","s">>,
        description |->
            <<"I","n","s","e","r","t"," ","3","-","c","o","l","u","m","n"," ","l","a","y","o","u","t">>],
       [id |-> "cols-4", type |-> "columns", count |-> 4,
        label |-> <<"4"," ","C","o","l","u","m","n","s">>,
        description |->
            <<"I","n","s","e","r","t"," ","4","-","c","o","l","u","m","n"," ","l","a","y","o","u","t">>],
       [id |-> "field", type |-> "field", 
        label |-> <<"F","i","e","l","d">>,
        description |->
            <<"I","n","s","e","r","t"," ","a"," ","d","y","n","a","m","i","c"," ","f","i","e","l","d">>] >>

UpperCase ==
    <<"A","B","C","D","E","F","G","H","I","J","K","L","M",
      "N","O","P","Q","R","S","T","U","V","W","X","Y","Z">>

LowerCase ==
    <<"a","b","c","d","e","f","g","h","i","j","k","l","m",
      "n","o","p","q","r","s","t","u","v","w","x","y","z">>

\* String.prototype.toLowerCase
toLowerCase(s) ==
    [i \in 1..Len(s) |->
        IF \E k \in 1..Len(UpperCase) : UpperCase[k] = s[i]
        THEN LowerCase[CHOOSE k \in 1..Len(UpperCase) : UpperCase[k] = s[i]]
        ELSE s[i]]

\* String.prototype.includes
includes(s, searchString) ==
    \E i \in 0..(Len(s) - Len(searchString)) :
        SubSeq(s, i + 1, i + Len(searchString)) = searchString

\* filterItems looking at the labels only
filterItemsByLabel(query) ==
    IF Len(query) = 0 THEN suggestions
    ELSE LET q == toLowerCase(query)
         IN SelectSeq(suggestions,
                      LAMBDA item : includes(toLowerCase(item.label), q))

\* filterItems; suggestions.filter is SelectSeq
filterItems(query) ==
    IF Len(query) = 0 THEN suggestions
    ELSE LET q == toLowerCase(query)
         IN SelectSeq(suggestions,
                      LAMBDA item :
                          \/ includes(toLowerCase(item.label), q)
                          \/ includes(toLowerCase(item.description), q))

\* EventSystem.emit for an event of the menu, before its subscribers run
emitting(m, event) == [m EXCEPT !.emitted = Append(@, event)]

RECURSIVE emitMentionSelect(_, _)

\* the panel's own state (isVisible, targetRange, currentQuery), the
\* data-id of the items in mentionItems, the index of the one with the
\* class 'selected' (-1: none) and searchInput.value
noMention ==
    [isVisible |-> FALSE, targetRange |-> null, currentQuery |-> <<>>,
     items |-> <<>>, selected |-> -1, value |-> <<>>]

\* the timeouts that are pending: showMentionPanel's (0 ms), the search
\* input's blur handler's (200 ms), handleEditorBlur's (100 ms) and
\* saveState's (500 ms)
noTasks ==
    [focus |-> 0, hide |-> 0, blur |-> 0, save |-> 0, publish |-> 0,
     order |-> <<>>]

\* where the keyboard focus is ("editor": the active editable region,
\* "search": the panel's search input, "none": elsewhere), the content of
\* the active region with the caret at offset in its text, and the key whose
\* keydown has been handled and whose input event follows
noCaret ==
    [focus |-> "none", text |-> <<>>, payload |-> <<>>, after |-> <<>>,
     offset |-> 0, key |-> null]

\* the editable region of the active editor has the focus
editorHasFocus(m) == m.caret.focus = "editor" /\ m.activeEditor.attached

\* the number of runs of TextEditor.init so far: each registers a watcher of
\* document.pages, a listener of 'mention:select' and the delegated keydown
\* and input handlers once more
textEditorInits(m) ==
    Cardinality({ i \in 1..Len(m.listeners) : m.listeners[i].kind = "document" })

filterAndRenderItems(m) ==
    LET filteredItems == filterItems(m.mention.currentQuery)
    IN [m EXCEPT !.mention.items =
                     [i \in 1..Len(filteredItems) |-> filteredItems[i].id],
                 !.mention.selected = IF Len(filteredItems) > 0 THEN 0 ELSE -1]

showMentionPanel(m, data) ==
    Then(update([m EXCEPT !.mention.targetRange = data.targetRange,
                          !.mention.currentQuery = data.query],
                Single(pShowMentionPanel, TRUE), 1),
         LAMBDA m1 :
           Then(update(m1, Single(pMentionQuery, str(m1.mention.currentQuery)), 1),
                LAMBDA m2 :
                  [filterAndRenderItems(m2) EXCEPT !.mention.isVisible = TRUE,
                                                   !.tasks.focus = @ + 1]))

updateMentionPanel(m, data) ==
    IF ~m.mention.isVisible THEN m
    ELSE Then(update([m EXCEPT !.mention.currentQuery = data.query],
                     Single(pMentionQuery, str(data.query)), 1),
              LAMBDA m1 :
                filterAndRenderItems(
                    IF m1.caret.focus # "search"
                    THEN [m1 EXCEPT !.mention.value = m1.mention.currentQuery]
                    ELSE m1))

hideMentionPanel(m) ==
    [update(m, Single(pShowMentionPanel, FALSE), 1)
        EXCEPT !.mention.isVisible = FALSE, !.mention.targetRange = null]

\* EventSystem.emit for 'mention:show', 'mention:update' and 'mention:hide':
\* each has the one subscriber that setupEventListeners registered
emitMentionShow(m, data) == showMentionPanel(emitting(m, "mention:show"), data)

emitMentionUpdate(m, data) ==
    updateMentionPanel(emitting(m, "mention:update"), data)

emitMentionHide(m) == hideMentionPanel(emitting(m, "mention:hide"))

navigateMentionItems(m, direction) ==
    LET length == Len(m.mention.items)
        newIndex == m.mention.selected + direction
    IN IF length = 0 THEN m
       ELSE [m EXCEPT !.mention.selected =
                          IF newIndex < 0 THEN length - 1
                          ELSE IF newIndex >= length THEN 0
                          ELSE newIndex]

\* suggestions.find(suggestion => suggestion.id === itemId): no element if
\* there is none
findItem(itemId) ==
    LET found == SelectSeq(suggestions, LAMBDA suggestion : suggestion.id = itemId)
    IN SubSeq(found, 1, 1)

selectMentionItem(m, itemId) ==
    LET item == findItem(itemId)
    IN IF Len(item) = 0 THEN m
       ELSE Then(emitMentionSelect(m, item[1]),
                 LAMBDA m1 : hideMentionPanel(m1))

selectCurrentMentionItem(m) ==
    IF m.mention.selected >= 0
    THEN selectMentionItem(m, m.mention.items[m.mention.selected + 1])
    ELSE m

\* the timeout of showMentionPanel: a panel that is not displayed cannot
\* take the focus; the region that loses it to the panel is not saved
focusSearchInput(m) ==
    LET m1 == [m EXCEPT !.tasks.focus = @ - 1,
                        !.mention.value = m.mention.currentQuery]
    IN IF m1.mention.isVisible THEN [m1 EXCEPT !.caret.focus = "search"]
       ELSE m1

\* the blur handler of the search input, the focus going to nothing that
\* is a suggestion
searchInputBlur(m) ==
    [m EXCEPT !.tasks.hide = @ + 1, !.caret.focus = "none"]

(***************************************************************************)
(* TextEditor's part of the menu (src/unnamed/part_000).  The Range that   *)
(* handleEditorKeydown clones is live: the DOM moves its start with the    *)
(* text inserted or removed before it.  mentionTriggerPos is null (no      *)
(* element) or an object (one element) with the start offset of its range  *)
(* and its query; captured keeps the start offset the range had when it    *)
(* was cloned, which the code has no copy of.                              *)
(***************************************************************************)
noTriggerPos == <<>>

TriggerPos(startOffset, query) ==
    << [range |-> startOffset, query |-> query, captured |-> startOffset] >>

\* a boundary point at offset r of a text node after data was inserted at
\* offset ("replace data" of the DOM standard with count 0)
afterInsert(r, offset, length) == IF r > offset THEN r + length ELSE r

\* the same after count characters were removed at offset
afterDelete(r, offset, count) ==
    IF r > offset /\ r <= offset + count THEN offset
    ELSE IF r > offset + count THEN r - count
    ELSE r

\* the browser inserts data at the caret of the active region
insertData(m, data) ==
    LET offset == m.caret.offset
    IN [m EXCEPT !.caret.text = SubSeq(@, 1, offset) \o data
                                    \o SubSeq(@, offset + 1, Len(@)),
                 !.caret.offset = offset + Len(data),
                 !.caret.key = null,
                 !.mentionTriggerPos =
                     [i \in 1..Len(@) |->
                         [@[i] EXCEPT !.range = afterInsert(@, offset, Len(data))]]]

\* the browser removes the character before the caret
deleteData(m) ==
    LET offset == m.caret.offset - 1
    IN [m EXCEPT !.caret.text = SubSeq(@, 1, offset)
                                    \o SubSeq(@, offset + 2, Len(@)),
                 !.caret.offset = offset,
                 !.mentionTriggerPos =
                     [i \in 1..Len(@) |->
                         [@[i] EXCEPT !.range = afterDelete(@, offset, 1)]]]

\* handleEditorKeydown anchoring at the start of the text
handleEditorKeydownAtStart(m) ==
    emitMentionShow([m EXCEPT !.mentionTriggerPos = TriggerPos(0, <<>>)],
                    [targetRange |-> 0, query |-> <<>>])

\* one run of handleEditorKeydown for '/'
handleEditorKeydown(m) ==
    emitMentionShow([m EXCEPT !.mentionTriggerPos =
                                  TriggerPos(m.caret.offset, <<>>)],
                    [targetRange |-> m.caret.offset, query |-> <<>>])

\* handleEditorInput comparing with the offset the range had when cloned
handleEditorInputStatic(m) ==
    IF m.mentionTriggerPos = noTriggerPos THEN m
    ELSE LET currentText == m.caret.text
             triggerOffset == m.mentionTriggerPos[1].captured
             currentOffset == m.caret.offset
             query == SubSeq(currentText, triggerOffset + 1, currentOffset)
         IN IF currentOffset > triggerOffset
            THEN IF includes(query, <<" ">>) \/ includes(query, <<"\n">>)
                 THEN [emitMentionHide(m)
                          EXCEPT !.mentionTriggerPos = noTriggerPos]
                 ELSE [emitMentionUpdate(m, [query |-> query])
                          EXCEPT !.mentionTriggerPos[1].query = query]
            ELSE [emitMentionHide(m)
                     EXCEPT !.mentionTriggerPos = noTriggerPos]

\* one run of handleEditorInput
handleEditorInput(m) ==
    IF m.mentionTriggerPos = noTriggerPos THEN m
    ELSE LET currentText == m.caret.text
             triggerOffset == m.mentionTriggerPos[1].range
             currentOffset == m.caret.offset
             query == SubSeq(currentText, triggerOffset + 1, currentOffset)
         IN IF currentOffset > triggerOffset
            THEN IF includes(query, <<" ">>) \/ includes(query, <<"\n">>)
                 THEN [emitMentionHide(m)
                          EXCEPT !.mentionTriggerPos = noTriggerPos]
                 ELSE [emitMentionUpdate(m, [query |-> query])
                          EXCEPT !.mentionTriggerPos[1].query = query]
            ELSE [emitMentionHide(m)
                     EXCEPT !.mentionTriggerPos = noTriggerPos]

\* a handler registered by every run of TextEditor.init, run once for each
RECURSIVE eachKeydown(_, _)
eachKeydown(m, n) ==
    IF n = 0 THEN m
    ELSE Then(handleEditorKeydown(m), LAMBDA m1 : eachKeydown(m1, n - 1))

RECURSIVE eachInput(_, _)
eachInput(m, n) ==
    IF n = 0 THEN m
    ELSE Then(handleEditorInput(m), LAMBDA m1 : eachInput(m1, n - 1))

\* one run of handleEditorKeydown for Tab: execCommand('insertHTML') with
\* four character references, in the region that has the focus, and the
\* input event it dispatches
RECURSIVE keydownTab(_, _)
keydownTab(m, n) ==
    IF n = 0 THEN m
    ELSE Then(eachInput(insertData(m, parseText("&nbsp;&nbsp;&nbsp;&nbsp;")),
                        textEditorInits(m)),
              LAMBDA m1 : keydownTab(m1, n - 1))

\* the content of the active editable region
regionHTML(m) ==
    innerHTML(regionNodes(Region(m.caret.text, m.caret.payload, m.caret.after)))

\* document.execCommand('insertHTML', false, html): the fragment enters the
\* active region at its caret if the browser finds the selection there
\* (m.execCommand), which it cannot once the region has left the document;
\* a region takes one insertion
execCommandInsertHTML(m, html) ==
    LET offset == m.caret.offset
        landed == /\ m.execCommand
                  /\ m.activeEditor.attached
                  /\ Len(m.caret.payload) = 0
        m1 == [m EXCEPT !.inserted = Append(@, [html |-> html, landed |-> landed])]
    IN IF landed
       THEN [m1 EXCEPT !.caret.text = SubSeq(@, 1, offset),
                       !.caret.payload = parseHtml(html),
                       !.caret.after = SubSeq(m.caret.text, offset + 1,
                                              Len(m.caret.text))]
       ELSE m1

\* range.deleteContents() from the trigger position to the caret
deleteContents(m) ==
    LET from == m.mentionTriggerPos[1].range
        to == m.caret.offset
    IN [m EXCEPT !.caret.text = SubSeq(@, 1, from) \o SubSeq(@, to + 1, Len(@)),
                 !.caret.offset = from]

insertContent(m, html) ==
    LET m1 == [emitMentionHide(m)
                  EXCEPT !.mentionTriggerPos = noTriggerPos]
    IN IF m1.activeEditor.blockId = null THEN m1
       ELSE Then(IF m1.mentionTriggerPos # noTriggerPos THEN deleteContents(m1)
                 ELSE m1,
                 LAMBDA m2 :
                   Then(execCommandInsertHTML(m2, html),
                        LAMBDA m3 :
                          saveBlockContent(m3, m3.activeEditor.blockId,
                                           regionHTML(m3))))

\* the html that insertHeading hands to insertContent
insertHeading(level) ==
    "<h" \o ToString(level) \o " data-heading=\"true\">Heading "
        \o ToString(level) \o "</h" \o ToString(level) \o "><br>"

\* for (let c = 0; c < cols; c++) html += `<th ...>Header ${c + 1}</th>`
RECURSIVE headerCells(_, _)
headerCells(c, cols) ==
    IF c >= cols THEN ""
    ELSE "<th style=\"border:1px solid #ddd;padding:8px;text-align:left;\">Header "
             \o ToString(c + 1) \o "</th>" \o headerCells(c + 1, cols)

RECURSIVE bodyCells(_, _, _)
bodyCells(r, c, cols) ==
    IF c >= cols THEN ""
    ELSE "<td style=\"border:1px solid #ddd;padding:8px;\">Cell "
             \o ToString(r + 1) \o "-" \o ToString(c + 1) \o "</td>"
             \o bodyCells(r, c + 1, cols)

RECURSIVE bodyRows(_, _, _)
bodyRows(r, rows, cols) ==
    IF r >= rows THEN ""
    ELSE "<tr>" \o bodyCells(r, 0, cols) \o "</tr>" \o bodyRows(r + 1, rows, cols)

\* the html that insertTable hands to insertContent
insertTable(rows, cols) ==
    "<table class=\"cpq-table\" style=\"width:100%;border-collapse:collapse;margin:10px 0;\">"
        \o "<thead><tr>" \o headerCells(0, cols) \o "</tr></thead><tbody>"
        \o bodyRows(0, rows, cols)
        \o "</tbody></table><p><br></p>"

RECURSIVE columnDivs(_, _)
columnDivs(i, count) ==
    IF i >= count THEN ""
    ELSE "<div class=\"column\" style=\"flex:1;\">\n                <p>Column "
             \o ToString(i + 1) \o " content</p>\n            </div>"
             \o columnDivs(i + 1, count)

\* the html that insertColumns hands to insertContent
insertColumns(count) ==
    "<div class=\"columns columns-" \o ToString(count)
        \o "\" style=\"display:flex;gap:20px;margin:10px 0;\">"
        \o columnDivs(0, count) \o "</div><p><br></p>"

\* the listener of 'mention:select' that initEventListeners registers:
\* insertHeading, insertTable or insertColumns, which return at once when
\* there is no active editor
onMentionSelect(m, data) ==
    IF data.type \in {"heading", "table", "columns"}
    THEN IF m.activeEditor.blockId = null THEN m
         ELSE insertContent(m,
                  IF data.type = "heading" THEN insertHeading(data.level)
                  ELSE IF data.type = "table" THEN insertTable(data.rows, data.cols)
                  ELSE insertColumns(data.count))
    ELSE m

RECURSIVE eachMentionSelect(_, _, _)
eachMentionSelect(m, data, n) ==
    IF n = 0 THEN m
    ELSE Then(onMentionSelect(m, data),
              LAMBDA m1 : eachMentionSelect(m1, data, n - 1))

\* EventSystem.emit('mention:select', item): the listeners that were
\* registered when it starts
emitMentionSelect(m, item) ==
    eachMentionSelect(emitting(m, "mention:select"), item, textEditorInits(m))

\* handleEditorBlur, the focus going to nothing in the toolbar or the panel
editorBlur(m) ==
    [handleEditorBlur(m, regionHTML(m))
        EXCEPT !.tasks.blur = @ + 1, !.caret.focus = "none"]

\* the timeout of handleEditorBlur
blurTimeout(m) ==
    IF editorHasFocus(m) THEN [m EXCEPT !.tasks.blur = @ - 1]
    ELSE [m EXCEPT !.tasks.blur = @ - 1, !.activeEditor = noEditor]

(***************************************************************************)
(* CPQEditor.saveState and loadState (src/js/core/events.js).  The item in *)
(* localStorage is the text JSON.stringify makes of the state; JSON.parse  *)
(* reads it character by character.                                        *)
(***************************************************************************)
\* the characters of a string as JSON.stringify writes them between quotes
RECURSIVE escaped(_, _)
escaped(s, i) ==
    IF i > Len(s) THEN ""
    ELSE (CASE SubSeq(s, i, i) = "\"" -> "\\\""
            [] SubSeq(s, i, i) = "\\" -> "\\\\"
            [] SubSeq(s, i, i) = "\n" -> "\\n"
            [] OTHER -> SubSeq(s, i, i)) \o escaped(s, i + 1)

jsonString(s) == "\"" \o escaped(s, 1) \o "\""

jsonBoolean(b) == IF b THEN "true" ELSE "false"

\* a value that is null or a string
jsonNullOrString(v) == IF v = null THEN "null" ELSE jsonString(v)

\* the texts of the elements or members, with commas between them
RECURSIVE commas(_)
commas(texts) ==
    IF Len(texts) = 0 THEN ""
    ELSE IF Len(texts) = 1 THEN texts[1]
    ELSE texts[1] \o "," \o commas(Tail(texts))

jsonArray(texts) == "[" \o commas(texts) \o "]"

jsonMember(key, text) == jsonString(key) \o ":" \o text

jsonObject(members) == "{" \o commas(members) \o "}"

stringifyBlock(block) ==
    jsonObject(<< jsonMember("id", jsonString(block.id)),
                  jsonMember("type", jsonString(block.type)),
                  jsonMember("content", jsonString(block.content)) >>)

stringifySettings(settings) ==
    jsonObject(<< jsonMember("size", jsonString(settings.size)),
                  jsonMember("orientation", jsonString(settings.orientation)),
                  jsonMember("padding",
                      jsonObject(<< jsonMember("top", ToString(settings.padding.top)),
                                    jsonMember("right", ToString(settings.padding.right)),
                                    jsonMember("bottom", ToString(settings.padding.bottom)),
                                    jsonMember("left", ToString(settings.padding.left)) >>)) >>)

stringifyPage(page) ==
    jsonObject(<< jsonMember("id", jsonString(page.id)),
                  jsonMember("header", jsonString(page.header)),
                  jsonMember("footer", jsonString(page.footer)),
                  jsonMember("blocks",
                      jsonArray([i \in 1..Len(page.blocks) |->
                                    stringifyBlock(page.blocks[i])])),
                  jsonMember("settings", stringifySettings(page.settings)) >>)

stringifyDocument(doc) ==
    jsonObject(<< jsonMember("id", jsonString(doc.id)),
                  jsonMember("name", jsonString(doc.name)),
                  jsonMember("pages",
                      jsonArray([i \in 1..Len(doc.pages) |->
                                    stringifyPage(doc.pages[i])])) >>)

stringifyUi(ui) ==
    jsonObject(<< jsonMember("currentPage", ToString(ui.currentPage)),
                  jsonMember("activeElement", jsonNullOrString(ui.activeElement)),
                  jsonMember("selectionRange", jsonNullOrString(ui.selectionRange)),
                  jsonMember("showMentionPanel", jsonBoolean(ui.showMentionPanel)),
                  jsonMember("showStylePanel", jsonBoolean(ui.showStylePanel)),
                  jsonMember("mentionQuery", jsonString(ui.mentionQuery)),
                  jsonMember("autoSaveStatus", jsonString(ui.autoSaveStatus)),
                  jsonMember("activeTab", jsonString(ui.activeTab)) >>)

\* JSON.stringify of the state tree; the snapshots in history are states
RECURSIVE stringify(_)
stringify(s) ==
    jsonObject(<< jsonMember("document", stringifyDocument(s.document)),
                  jsonMember("ui", stringifyUi(s.ui)),
                  jsonMember("history",
                      jsonObject(<< jsonMember("past",
                                        jsonArray([i \in 1..Len(s.history.past) |->
                                                      stringify(s.history.past[i])])),
                                    jsonMember("future",
                                        jsonArray([i \in 1..Len(s.history.future) |->
                                                      stringify(s.history.future[i])])) >>)) >>)

\* the place after the string whose opening quote is at i
RECURSIVE skipString(_, _)
skipString(text, i) ==
    CASE SubSeq(text, i + 1, i + 1) = "\"" -> i + 2
      [] SubSeq(text, i + 1, i + 1) = "\\" -> skipString(text, i + 2)
      [] OTHER -> skipString(text, i + 1)

\* the place after the number or the literal that starts at i
RECURSIVE skipToken(_, _)
skipToken(text, i) ==
    IF i > Len(text) \/ SubSeq(text, i, i) \in {",", "}", "]"} THEN i
    ELSE skipToken(text, i + 1)

RECURSIVE skipValue(_, _)
RECURSIVE skipItems(_, _)

\* the place after the array or object of which i is in, between two items
skipItems(text, i) ==
    CASE SubSeq(text, i, i) \in {"}", "]"} -> i + 1
      [] SubSeq(text, i, i) \in {",", ":"} -> skipItems(text, i + 1)
      [] OTHER -> skipItems(text, skipValue(text, i))

\* the place after the value that starts at i
skipValue(text, i) ==
    CASE SubSeq(text, i, i) \in {"{", "["} -> skipItems(text, i + 1)
      [] SubSeq(text, i, i) = "\"" -> skipString(text, i)
      [] OTHER -> skipToken(text, i)

\* the places where the elements of an array start, from i on
RECURSIVE elementStarts(_, _)
elementStarts(text, i) ==
    CASE SubSeq(text, i, i) = "]" -> <<>>
      [] SubSeq(text, i, i) = "," -> elementStarts(text, i + 1)
      [] OTHER -> <<i>> \o elementStarts(text, skipValue(text, i))

\* the places where the members of an object start, from i on
RECURSIVE memberStarts(_, _)
memberStarts(text, i) ==
    CASE SubSeq(text, i, i) = "}" -> <<>>
      [] SubSeq(text, i, i) = "," -> memberStarts(text, i + 1)
      [] OTHER -> <<i>> \o memberStarts(text, skipValue(text, skipString(text, i) + 1))

\* the characters of a string from i to its closing quote
RECURSIVE parseString(_, _)
parseString(text, i) ==
    CASE SubSeq(text, i, i) = "\"" -> ""
      [] SubSeq(text, i, i) = "\\" ->
            (IF SubSeq(text, i + 1, i + 1) = "n" THEN "\n"
             ELSE SubSeq(text, i + 1, i + 1)) \o parseString(text, i + 2)
      [] OTHER -> SubSeq(text, i, i) \o parseString(text, i + 1)

\* the digits from i on
RECURSIVE parseNumber(_, _, _)
parseNumber(text, i, n) ==
    IF i <= Len(text) /\ SubSeq(text, i, i) \in Digits
    THEN parseNumber(text, i + 1, 10 * n + DigitValue(SubSeq(text, i, i)))
    ELSE n

\* the value that starts at i: an object is a function of its keys, the
\* last member with a key giving its value; an array is a sequence
RECURSIVE parseValue(_, _)
parseValue(text, i) ==
    CASE SubSeq(text, i, i) = "{" ->
            LET starts == memberStarts(text, i + 1)
                keyAt(n) == parseString(text, starts[n] + 1)
            IN [key \in { keyAt(n) : n \in 1..Len(starts) } |->
                   LET last == CHOOSE n \in 1..Len(starts) :
                                   /\ keyAt(n) = key
                                   /\ \A o \in (n + 1)..Len(starts) : keyAt(o) # key
                   IN parseValue(text, skipString(text, starts[last]) + 1)]
      [] SubSeq(text, i, i) = "[" ->
            LET starts == elementStarts(text, i + 1)
            IN [n \in 1..Len(starts) |-> parseValue(text, starts[n])]
      [] SubSeq(text, i, i) = "\"" -> parseString(text, i + 1)
      [] SubSeq(text, i, i) = "t" -> TRUE
      [] SubSeq(text, i, i) = "f" -> FALSE
      [] SubSeq(text, i, i) = "n" -> null
      [] OTHER -> parseNumber(text, i, 0)

\* JSON.parse
parse(text) == parseValue(text, 1)

\* localStorage has no item 'cpq-editor-state' (no element) or one (one
\* element): its text, and saved, the document of the state it was made
\* of, which the code has no copy of
noItem == <<>>

Item(text, document) == << [text |-> text, saved |-> document] >>

\* saveState, up to its timeout
saveState(m) ==
    setTimeout([update(m, Single(pAutoSaveStatus, "saving"), 1)
                   EXCEPT !.tasks.save = @ + 1],
               saveStateDelay)

\* the timeout of saveState
saveStateTimeout(m) ==
    update(timedOut([m EXCEPT !.localStorage =
                                  Item(stringify(deepClone(m.state)),
                                       m.state.document),
                              !.tasks.save = @ - 1],
                    saveStateDelay),
           Single(pAutoSaveStatus, "saved"), 1)

(***************************************************************************)
(* The navigation bar (src/js/layouts/navigation.js).                      *)
(***************************************************************************)
\* handleSaveTemplate: the click on the save button
handleSaveTemplate(m) ==
    setTimeout([update(m, Single(pAutoSaveStatus, "saving"), 1)
                   EXCEPT !.timers = @ + 1],
               autoSaveDelay)

\* handleTabChange: the click on a tab of the navigation bar
handleTabChange(m, tabName) == update(m, Single(pActiveTab, tabName), 1)

\* publishTemplate
publishTemplate(m) ==
    setTimeout([update(m, Single(pAutoSaveStatus, "saving"), 1)
                   EXCEPT !.tasks.publish = @ + 1],
               publishDelay)

\* the timeout of publishTemplate
published(m) ==
    update(timedOut([m EXCEPT !.tasks.publish = @ - 1], publishDelay),
           Single(pAutoSaveStatus, "saved"), 1)

\* loadState applying the ui and the history of the item only
loadStateWithoutDocument(m) ==
    IF m.localStorage = noItem THEN m
    ELSE Then(parse(m.localStorage[1].text),
              LAMBDA savedState :
                Then(update(m, Single(kUi, savedState.ui), 1),
                     LAMBDA m2 :
                       update(m2, Single(kHistory, savedState.history), 1)))

\* loadState: Object.entries(state) are document, ui and history
loadState(m) ==
    IF m.localStorage = noItem THEN m
    ELSE Then(parse(m.localStorage[1].text),
              LAMBDA savedState :
                Then(update(m, Single(kDocument, savedState.document), 1),
                     LAMBDA m1 :
                       Then(update(m1, Single(kUi, savedState.ui), 1),
                            LAMBDA m2 :
                              update(m2, Single(kHistory, savedState.history), 1))))

(***************************************************************************)
(* JavaScript values, for the paths and values StateManager's callers may  *)
(* pass that the editor's own components never do.  A value is a record    *)
(* with a type t and, by type, a number n (a boolean is 1 or 0, an array   *)
(* keeps its length there), the characters s of a string, and the own      *)
(* properties f of an object or array in insertion order.  Property names  *)
(* are strings; an array's elements are the properties "0", "1", ...       *)
(***************************************************************************)
jsValue(t, n, s, f) == [t |-> t, n |-> n, s |-> s, f |-> f]

jsUndefined == jsValue("undefined", 0, <<>>, <<>>)
jsNull == jsValue("null", 0, <<>>, <<>>)
jsBoolean(b) == jsValue("boolean", IF b THEN 1 ELSE 0, <<>>, <<>>)
jsNumber(n) == jsValue("number", n, <<>>, <<>>)
jsString(chars) == jsValue("string", 0, chars, <<>>)
jsObject(props) == jsValue("object", 0, <<>>, props)

Prop(k, v) == [k |-> k, v |-> v]

\* [item, ...]: the array of the items
jsArray(items) ==
    jsValue("array", Len(items), <<>>,
            [i \in 1..Len(items) |-> Prop(ToString(i - 1), items[i])])

\* !value
falsy(value) ==
    \/ value.t \in {"undefined", "null"}
    \/ value.t \in {"boolean", "number"} /\ value.n = 0
    \/ value.t = "string" /\ value.s = <<>>

\* a canonical array index: digits without a leading zero
isArrayIndex(part) ==
    IsIndex(part) /\ (Len(part) = 1 \/ part[1] # "0")

hasOwnProperty(value, key) == \E i \in 1..Len(value.f) : value.f[i].k = key

ownProperty(value, key) ==
    value.f[CHOOSE i \in 1..Len(value.f) : value.f[i].k = key].v

kLength == <<"l","e","n","g","t","h">>

\* current[part] read from a value that is neither null nor undefined: an
\* own property, the length and the characters of a string, the length of
\* an array; a property inherited from a prototype is not modelled
getProperty(current, part) ==
    CASE hasOwnProperty(current, str(part)) -> ownProperty(current, str(part))
      [] current.t = "string" /\ part = kLength -> jsNumber(Len(current.s))
      [] current.t = "string" /\ isArrayIndex(part)
            /\ ToNumber(part) < Len(current.s) ->
           jsString(<<current.s[ToNumber(part) + 1]>>)
      [] current.t = "array" /\ part = kLength -> jsNumber(current.n)
      [] OTHER -> jsUndefined

\* current[part] = value outside strict mode, for a current that is neither
\* null nor undefined: an object or an array takes the property, an array
\* grows to hold an index, and a number, a boolean or a string is left as it
\* is, the assignment lost without an error
setProperty(current, part, value) ==
    LET key == str(part)
    IN IF current.t \notin {"object", "array"} THEN current
       ELSE IF hasOwnProperty(current, key)
       THEN [current EXCEPT !.f =
                [i \in 1..Len(@) |->
                    IF @[i].k = key THEN Prop(key, value) ELSE @[i]]]
       ELSE [current EXCEPT
                !.f = Append(@, Prop(key, value)),
                !.n = IF current.t = "array" /\ isArrayIndex(part)
                           /\ ToNumber(part) >= @
                      THEN ToNumber(part) + 1 ELSE @]

\* what a call gives back: the value returned or the error thrown
Returned(value) == [threw |-> FALSE, value |-> value]
Threw(value) == [threw |-> TRUE, value |-> value]

\* JSON.parse(JSON.stringify(value)) of a value other than undefined: an
\* object loses the properties that are undefined, an array keeps its
\* elements up to its length, null where there is none or undefined, and
\* loses any other property
RECURSIVE jsonCopy(_)
jsonCopyProps(props) ==
    LET kept == SelectSeq(props, LAMBDA p : p.v.t # "undefined")
    IN [i \in 1..Len(kept) |-> Prop(kept[i].k, jsonCopy(kept[i].v))]

jsonCopyItem(value, i) ==
    IF hasOwnProperty(value, ToString(i))
          /\ ownProperty(value, ToString(i)).t # "undefined"
    THEN jsonCopy(ownProperty(value, ToString(i)))
    ELSE jsNull

jsonCopy(value) ==
    CASE value.t = "object" -> [value EXCEPT !.f = jsonCopyProps(@)]
      [] value.t = "array" ->
           [value EXCEPT !.f = [i \in 1..value.n |->
                                   Prop(ToString(i - 1), jsonCopyItem(value, i - 1))]]
      [] OTHER -> value

\* Utils.deepClone of any value.  JSON.stringify(undefined) is undefined, and
\* JSON.parse(undefined) parses the text "undefined": a SyntaxError
jsDeepClone(obj) ==
    IF obj.t = "undefined" THEN Threw(jsUndefined)
    ELSE Returned(jsonCopy(obj))

\* getValueAtPath's loop on a tree of JavaScript values
RECURSIVE jsGetIn(_, _)
jsGetIn(current, parts) ==
    IF Len(parts) = 0 THEN current
    ELSE IF current.t \in {"null", "undefined"} THEN jsUndefined
    ELSE jsGetIn(getProperty(current, parts[1]), Tail(parts))

jsGetValueAtPath(obj, path) == jsGetIn(obj, split(path))

\* StateManager.get for any path
jsGet(obj, path) == jsDeepClone(jsGetValueAtPath(obj, path))

\* setValueAtPath's loop and final assignment on the segments that are left:
\* the node that current has become, or the TypeError of reading or writing
\* a property of undefined
RECURSIVE jsSetIn(_, _, _)
jsSetIn(current, parts, value) ==
    IF current.t \in {"null", "undefined"} THEN Threw(current)
    ELSE IF Len(parts) = 1 THEN Returned(setProperty(current, parts[1], value))
    ELSE LET made == IF falsy(getProperty(current, parts[1]))
                     THEN setProperty(current, parts[1], jsObject(<<>>))
                     ELSE current
             below == jsSetIn(getProperty(made, parts[1]), Tail(parts), value)
             node == IF hasOwnProperty(made, str(parts[1]))
                     THEN setProperty(made, parts[1], below.value)
                     ELSE made
         IN [threw |-> below.threw, value |-> node]


\* the elements of an array, null where it has none
arrayItems(array) == [i \in 1..array.n |-> jsonCopyItem(array, i - 1)]

\* StateManager.update(path, value) on a tree of JavaScript values: the
\* machine it leaves, and whether it threw.  An error leaves update where it
\* is raised: in setValueAtPath, before the path is recorded, or at
\* state.history.past.push when history or past is no longer what it was
jsUpdate(m, path, value) ==
    LET prevState == jsDeepClone(m.state).value
        m0 == [m EXCEPT !.changedPaths = <<>>]
        set == jsSetIn(m0.state, split(path), value)
        m1 == [m0 EXCEPT !.state = set.value, !.changedPaths = <<path>>]
        past == jsGetIn(m1.state, <<kHistory, kPast>>)
        pushed == jsArray(pushPast(arrayItems(past), prevState))
        withPast == jsSetIn(m1.state, <<kHistory, kPast>>, pushed).value
        withFuture == jsSetIn(withPast, <<kHistory, kFuture>>, jsArray(<<>>)).value
        m2 == [m1 EXCEPT !.state = withFuture, !.commits = @ + 1]
    IN IF set.threw THEN [threw |-> TRUE, m |-> [m0 EXCEPT !.state = set.value]]
       ELSE IF past.t # "array" THEN [threw |-> TRUE, m |-> m1]
       ELSE [threw |-> FALSE,
             m |-> emit(m2, "state:changed",
                        [changedPaths |-> m2.changedPaths,
                         state |-> jsDeepClone(m2.state).value,
                         commit |-> m2.commits],
                        1)]

\* initialState as JavaScript values
jsInitialState ==
    jsObject(<<
      Prop("document", jsObject(<<
        Prop("id", jsString(<<"d","o","c","-","1">>)),
        Prop("name", jsString(<<"U","n","t","i","t","l","e","d"," ",
                                "T","e","m","p","l","a","t","e">>)),
        Prop("pages", jsArray(<<
          jsObject(<<
            Prop("id", jsString(<<"p","a","g","e","-","1">>)),
            Prop("header", jsString(<<>>)),
            Prop("footer", jsString(<<>>)),
            Prop("blocks", jsArray(<<
              jsObject(<<
                Prop("id", jsString(<<"b","l","o","c","k","-","1">>)),
                Prop("type", jsString(<<"t","e","x","t">>)),
                Prop("content", jsString(<<>>)) >>) >>)),
            Prop("settings", jsObject(<<
              Prop("size", jsString(<<"A","4">>)),
              Prop("orientation", jsString(<<"p","o","r","t","r","a","i","t">>)),
              Prop("padding", jsObject(<<
                Prop("top", jsNumber(2)), Prop("right", jsNumber(2)),
                Prop("bottom", jsNumber(2)), Prop("left", jsNumber(2)) >>))
              >>)) >>) >>)) >>)),
      Prop("ui", jsObject(<<
        Prop("currentPage", jsNumber(0)),
        Prop("activeElement", jsNull),
        Prop("selectionRange", jsNull),
        Prop("showMentionPanel", jsBoolean(FALSE)),
        Prop("showStylePanel", jsBoolean(FALSE)),
        Prop("mentionQuery", jsString(<<>>)),
        Prop("autoSaveStatus", jsString(<<"s","a","v","e","d">>)),
        Prop("activeTab", jsString(<<"c","r","e","a","t","e">>)) >>)),
      Prop("history", jsObject(<<
        Prop("past", jsArray(<<>>)),
        Prop("future", jsArray(<<>>)) >>)) >>)

(***************************************************************************)
(* The state of the model.                                                 *)
(*   state, changedPaths   StateManager's module variables                 *)
(*   listeners             the handlers registered for 'state:changed'     *)
(*   dom                   the page container as last rendered or edited   *)
(*   activeEditor          TextEditor's activeEditor                       *)
(*   seed                  the number of Math.random draws made so far     *)
(*   timers                the number of pending autosave timeouts         *)
(* and, recorded for the properties (the code does not hold them):         *)
(*   op       the last operation, its argument and the number n of         *)
(*            listeners registered when it started                         *)
(*   pre      the value of state before the last operation                 *)
(*   calls    the callbacks the last operation invoked, in order           *)
(*   emitted  the events the last operation emitted, in order              *)
(*   commits  the number of updates of the last operation that wrote a path*)
(*   steps    the number of operations so far                              *)
(*   run      where the behaviour stands in "n updates from a reset store, *)
(*            n undos, n redos", and the state after the n-th update       *)
(*   pres     the pre-commit states of the updates made in a row since the *)
(*            last undo, redo or reset; base is the length of past before  *)
(*            the first of them                                            *)
(***************************************************************************)
VARIABLES state, changedPaths, listeners, dom, activeEditor, seed, timers,
          mention, mentionTriggerPos, caret, tasks, localStorage,
          op, pre, calls, emitted, commits, inserted, steps, run, pres, base

vars == <<state, changedPaths, listeners, dom, activeEditor, seed, timers,
          mention, mentionTriggerPos, caret, tasks, localStorage,
          op, pre, calls, emitted, commits, inserted, steps, run, pres, base>>

\* the store as the operators above take it, at the start of an operation
Machine ==
    [state |-> state, changedPaths |-> changedPaths, listeners |-> listeners,
     dom |-> dom, activeEditor |-> activeEditor, seed |-> seed,
     timers |-> timers, mention |-> mention,
     mentionTriggerPos |-> mentionTriggerPos, caret |-> caret, tasks |-> tasks,
     localStorage |-> localStorage, execCommand |-> FALSE,
     calls |-> <<>>, emitted |-> <<>>, commits |-> 0, inserted |-> <<>>]

page2 ==
    [id |-> "page-2", header |-> "", footer |-> "",
     blocks |-> << [id |-> "block-2", type |-> "text", content |-> ""] >>,
     settings |-> defaultSettings]

twoPages == << initialState.document.pages[1], page2 >>

\* the arguments update is called with: a path and a value, or an object of
\* paths and values (as addNewPage's), which may be empty
Updates ==
    { Single(pName, "Quote"),
      Single(pContent00, "a"),
      Single(pPage1, [page2 EXCEPT !.header = "h"]),
      Multi(<< [path |-> pPages, value |-> twoPages],
               [path |-> pCurrentPage, value |-> 1] >>),
      Multi(<<>>) }

Watcher(pathArray, kind, nested) ==
    [pathArray |-> pathArray, kind |-> kind, nested |-> nested]

\* the watchers CPQEditor.init registers, in its order: TextEditor's, the
\* navigation bar's three, PageManager's (whose callback runs TextEditor.init)
appWatchers ==
    << Watcher(<<pPages>>, "document", <<>>),
       Watcher(<<pName>>, "render", <<>>),
       Watcher(<<pAutoSaveStatus>>, "render", <<>>),
       Watcher(<<pActiveTab>>, "render", <<>>),
       Watcher(<<pPages>>, "init", <<>>) >>

\* further watchers a component may register: of several paths, of one block's
\* content, of one page
Watchers ==
    { Watcher(<<pName, pPages, pContent00>>, "render", <<>>),
      Watcher(<<pContent01>>, "render", <<>>),
      Watcher(<<pPage10>>, "render", <<>>) }

\* watchers whose callback updates the store on a path they do not watch
NestedWatchers ==
    { Watcher(<<pName>>, "update", Single(pAutoSaveStatus, "saving")),
      Watcher(<<pPages>>, "update", Single(pActiveTab, "preview")) }

Init ==
    /\ state = deepClone(initialState)
    /\ changedPaths = <<>>
    /\ listeners = appWatchers
    /\ dom = renderDocumentFromState(initialState)
    /\ activeEditor = noEditor
    /\ seed = FirstSeed
    /\ timers = 0
    /\ mention = noMention
    /\ mentionTriggerPos = noTriggerPos
    /\ caret = noCaret
    /\ tasks = noTasks
    /\ localStorage = noItem
    /\ inserted = <<>>
    /\ op = [name |-> "init", arg |-> <<>>, n |-> 0]
    /\ pre = initialState
    /\ calls = <<>>
    /\ emitted = <<>>
    /\ commits = 0
    /\ steps = 0
    /\ run = [phase |-> "upd", n |-> 0, k |-> 0, after |-> initialState]
    /\ pres = <<>>
    /\ base = 0

\* what an operation leaves behind
Done(m, name, arg) ==
    /\ state' = m.state
    /\ changedPaths' = m.changedPaths
    /\ listeners' = m.listeners
    /\ dom' = m.dom
    /\ activeEditor' = m.activeEditor
    /\ seed' = m.seed
    /\ timers' = m.timers
    /\ mention' = m.mention
    /\ mentionTriggerPos' = m.mentionTriggerPos
    /\ caret' = m.caret
    /\ tasks' = m.tasks
    /\ localStorage' = m.localStorage
    /\ inserted' = m.inserted
    /\ calls' = m.calls
    /\ emitted' = m.emitted
    /\ commits' = m.commits
    /\ op' = [name |-> name, arg |-> arg, n |-> Len(listeners)]
    /\ pre' = state
    /\ steps' = steps + 1

Off == [phase |-> "off", n |-> 0, k |-> 0, after |-> initialState]

UpdateWith(u, bound) ==
    /\ steps < bound
    /\ LET m == update(Machine, u, 1)
       IN /\ Done(m, "update", u)
          /\ IF m.commits = 0
             THEN UNCHANGED <<run, pres, base>>
             ELSE /\ run' = IF run.phase = "upd"
                            THEN [run EXCEPT !.n = @ + m.commits,
                                             !.after = m.state]
                            ELSE Off
                  /\ pres' = Append(pres, state)
                  /\ base' = base

Update(bound) == \E u \in Updates : UpdateWith(u, bound)

Undo(bound) ==
    /\ steps < bound
    /\ Done(undo(Machine), "undo", <<>>)
    /\ run' = IF Len(state.history.past) = 0 THEN run
              ELSE IF run.phase = "upd"
                   THEN [run EXCEPT !.phase = "undo", !.k = 1]
              ELSE IF run.phase = "undo" /\ run.k < run.n
                   THEN [run EXCEPT !.k = @ + 1]
              ELSE Off
    /\ pres' = IF Len(state.history.past) = 0 THEN pres ELSE <<>>
    /\ base' = IF Len(state.history.past) = 0 THEN base
               ELSE Len(state'.history.past)

Redo(bound) ==
    /\ steps < bound
    /\ Done(redo(Machine), "redo", <<>>)
    /\ run' = IF Len(state.history.future) = 0 THEN run
              ELSE IF run.phase = "undo" /\ run.k = run.n
                   THEN [run EXCEPT !.phase = "redo", !.k = 1]
              ELSE IF run.phase = "redo" /\ run.k < run.n
                   THEN [run EXCEPT !.k = @ + 1]
              ELSE Off
    /\ pres' = IF Len(state.history.future) = 0 THEN pres ELSE <<>>
    /\ base' = IF Len(state.history.future) = 0 THEN base
               ELSE Len(state'.history.past)

Reset(bound) ==
    /\ steps < bound
    /\ Done(reset(Machine), "reset", <<>>)
    /\ run' = [phase |-> "upd", n |-> 0, k |-> 0, after |-> state']
    /\ pres' = <<>>
    /\ base' = 0

WatchWith(w) ==
    /\ Len(listeners) < MaxWatchers
    /\ listeners' = watch(Machine, w).listeners
    /\ op' = [name |-> "watch", arg |-> <<>>, n |-> Len(listeners)]
    /\ pre' = state
    /\ calls' = <<>>
    /\ emitted' = <<>>
    /\ commits' = 0
    /\ inserted' = <<>>
    /\ UNCHANGED <<state, changedPaths, dom, activeEditor, seed, timers,
                   mention, mentionTriggerPos, caret, tasks, localStorage,
                   steps, run, pres, base>>

Watch == \E w \in Watchers : WatchWith(w)

WatchNested == \E w \in NestedWatchers : WatchWith(w)

\* what an operation of the editor's components leaves in the record of
\* runs of updates: its commits end any run
Tracked(m) ==
    IF m.commits = 0
    THEN UNCHANGED <<run, pres, base>>
    ELSE /\ run' = Off
         /\ pres' = <<>>
         /\ base' = Len(m.state.history.past)

\* the data-page-id of the page elements in the container
DomPageIds == { dom[i].pageId : i \in 1..Len(dom) }

\* a click on the add-page button
AddNewPage(bound) ==
    /\ steps < bound
    /\ LET m == addNewPage(Machine)
       IN Done(m, "addNewPage", <<>>) /\ Tracked(m)

\* handlePageAction for a click on a page's duplicate button
DuplicatePageOf(pageId, bound) ==
    /\ steps < bound
    /\ LET m == duplicatePage(Machine, pageId)
       IN Done(m, "duplicatePage", [pageId |-> pageId]) /\ Tracked(m)

DuplicatePage(bound) == \E pageId \in DomPageIds : DuplicatePageOf(pageId, bound)

\* handlePageAction for a click on a page's delete button, and the user's
\* answer to the confirmation
DeletePageOf(pageId, confirmed, bound) ==
    /\ steps < bound
    /\ LET m == deletePage(Machine, pageId, confirmed)
       IN /\ Done(m, "deletePage", [pageId |-> pageId, confirmed |-> confirmed])
          /\ Tracked(m)

DeletePage(bound) ==
    \E pageId \in DomPageIds, confirmed \in BOOLEAN :
        DeletePageOf(pageId, confirmed, bound)

\* the data-block-id of the block elements in the container
DomBlockIds ==
    UNION { { dom[i].blocks[j] : j \in 1..Len(dom[i].blocks) } :
            i \in 1..Len(dom) }

\* the content of an editable region when Enter adds a block: no text, or
\* the cursor after an element
EnterHtml == { innerHTML(<<>>), innerHTML(<<Element("p", <<>>, <<Text("b")>>)>>) }

\* the user clicks into the editable region of a block while none has the
\* focus: the focus event
FocusOn(blockId, bound) ==
    /\ steps < bound
    /\ ~activeEditor.attached
    /\ LET m == handleEditorFocus(Machine, blockId)
       IN Done(m, "focus", [blockId |-> blockId]) /\ Tracked(m)

Focus(bound) == \E blockId \in DomBlockIds : FocusOn(blockId, bound)

\* Enter at the end of the editable region that has the focus
KeyEnterWith(html, bound) ==
    /\ steps < bound
    /\ activeEditor.attached
    /\ LET m == keydownEnter(Machine, html)
       IN /\ Done(m, "addBlockAfter",
                  [blockId |-> activeEditor.blockId, html |-> html])
          /\ Tracked(m)

KeyEnter(bound) == \E html \in EnterHtml : KeyEnterWith(html, bound)

\* Backspace in the editable region that has the focus, when it is empty
KeyBackspace(bound) ==
    /\ steps < bound
    /\ activeEditor.attached
    /\ LET m == keydownBackspace(Machine)
       IN /\ Done(m, "backspace", [blockId |-> activeEditor.blockId])
          /\ Tracked(m)

\* what the user leaves in an editable region, a header or a footer
EditorHtml == { innerHTML(f) : f \in RawFragments }

\* the focus leaves the editable region that has it, html its content: the
\* blur event and, no other region taking the focus, the timeout that
\* forgets the active editor
BlurWith(html, bound) ==
    /\ steps < bound
    /\ activeEditor.attached
    /\ LET m == handleEditorBlur(Machine, html)
       IN /\ Done([m EXCEPT !.activeEditor = noEditor], "saveBlockContent",
                  [blockId |-> activeEditor.blockId, html |-> html])
          /\ Tracked(m)

Blur(bound) == \E html \in EditorHtml : BlurWith(html, bound)

\* the blur event of a page's header or footer handed to
\* handleHeaderFooterChange
HeaderFooterChangeWith(pageId, isHeader, html, bound) ==
    /\ steps < bound
    /\ LET m == handleHeaderFooterChange(Machine, pageId, isHeader, html)
       IN /\ Done(m, "headerFooter",
                  [pageId |-> pageId, isHeader |-> isHeader, html |-> html])
          /\ Tracked(m)

HeaderFooterChange(htmls, bound) ==
    \E pageId \in DomPageIds, isHeader \in BOOLEAN, html \in htmls :
        HeaderFooterChangeWith(pageId, isHeader, html, bound)

\* a timeout set by saveBlockContent fires
AutoSaveTimeout(bound) ==
    /\ steps < bound
    /\ timers > 0
    /\ canRun(tasks.order, autoSaveDelay)
    /\ LET m == autosaved(Machine)
       IN Done(m, "autosaved", <<>>) /\ Tracked(m)

\* the editor after CPQEditor.init: its watchers are registered, the host
\* calls update, undo, redo and reset
Next == Update(MaxSteps) \/ Undo(MaxSteps) \/ Redo(MaxSteps) \/ Reset(MaxSteps)

Spec == Init /\ [][Next]_vars

\* the same with components that register further watchers
NextWatch ==
    \/ Update(MaxWatchSteps) \/ Undo(MaxWatchSteps) \/ Redo(MaxWatchSteps)
    \/ Reset(MaxWatchSteps) \/ Watch

SpecWatch == Init /\ [][NextWatch]_vars

\* the same with watchers whose callbacks update the store re-entrantly
NextNested ==
    \/ Update(MaxWatchSteps) \/ Undo(MaxWatchSteps) \/ Redo(MaxWatchSteps)
    \/ Reset(MaxWatchSteps) \/ Watch \/ WatchNested

SpecNested == Init /\ [][NextNested]_vars

\* the user adds, duplicates and deletes pages, and the host undoes, redoes
\* and resets
NextPages ==
    \/ AddNewPage(MaxPageSteps) \/ DuplicatePage(MaxPageSteps)
    \/ DeletePage(MaxPageSteps)
    \/ Undo(MaxPageSteps) \/ Redo(MaxPageSteps) \/ Reset(MaxPageSteps)

SpecPages == Init /\ [][NextPages]_vars

\* the user works in the editable regions (focus, Enter, Backspace) and on
\* the pages, and the host undoes, redoes and resets
NextBlocks ==
    \/ Focus(MaxBlockSteps) \/ KeyEnter(MaxBlockSteps)
    \/ KeyBackspace(MaxBlockSteps)
    \/ AddNewPage(MaxBlockSteps) \/ DuplicatePage(MaxBlockSteps)
    \/ DeletePage(MaxBlockSteps)
    \/ Undo(MaxBlockSteps) \/ Redo(MaxBlockSteps) \/ Reset(MaxBlockSteps)

SpecBlocks == Init /\ [][NextBlocks]_vars

\* the user writes pages (blocks, header, footer) and duplicates them
NextCopy ==
    \/ Focus(MaxCopySteps) \/ KeyEnter(MaxCopySteps)
    \/ HeaderFooterChange(EnterHtml, MaxCopySteps)
    \/ AddNewPage(MaxCopySteps) \/ DuplicatePage(MaxCopySteps)
    \/ Undo(MaxCopySteps)

SpecCopy == Init /\ [][NextCopy]_vars

\* everything the user and the host do
NextEditor ==
    \/ Focus(MaxEditorSteps) \/ Blur(MaxEditorSteps)
    \/ KeyEnter(MaxEditorSteps) \/ KeyBackspace(MaxEditorSteps)
    \/ HeaderFooterChange(EditorHtml, MaxEditorSteps) \/ AutoSaveTimeout(MaxEditorSteps)
    \/ AddNewPage(MaxEditorSteps) \/ DuplicatePage(MaxEditorSteps)
    \/ DeletePage(MaxEditorSteps)
    \/ Undo(MaxEditorSteps) \/ Redo(MaxEditorSteps) \/ Reset(MaxEditorSteps)

SpecEditor == Init /\ [][NextEditor]_vars

(***************************************************************************)
(* The '/' menu.  A key the user presses in an editable region is a        *)
(* keydown event and, the character entering the text, an input event;     *)
(* both are dispatched before any timeout runs.  Timeouts run in any order *)
(* with the user's next events.                                            *)
(***************************************************************************)
\* what the user types into the search input
Queries ==
    { <<>>,
      <<"t","a","b","l","e">>,
      <<"T","A","B","L","E">>,
      <<"t","A","b","L","e">>,
      <<"s","e","c","t","i","o","n">>,
      <<"g"," ","2">>, <<"g"," ","3">>,
      <<"2","×","2">>, <<"3","×","3">>, <<"4","×","4">>,
      <<"2","-","c">>, <<"3","-","c">>, <<"4","-","c">>,
      <<"f","i","e","l","d">> }

\* the menu and the region as the event finds them
Was ==
    [mention |-> mention, mentionTriggerPos |-> mentionTriggerPos,
     caret |-> caret, activeEditor |-> activeEditor, tasks |-> tasks]

\* the search input has the focus: it is displayed with its panel
searchHasFocus == caret.focus = "search" /\ mention.isVisible

\* the characters in the active region
typed == Len(caret.text) + Len(caret.after)

\* the focus enters the editable region of a block by the keyboard
FocusRegionOn(blockId, bound) ==
    /\ steps < bound
    /\ caret.key = null
    /\ ~editorHasFocus(Machine)
    /\ LET at == findBlock(state.document.pages, blockId)
           content == state.document.pages[at.pageIndex + 1]
                           .blocks[at.blockIndex + 1].content
           r == regionOf(content)
           m0 == IF searchHasFocus THEN searchInputBlur(Machine) ELSE Machine
           m == handleEditorFocus(m0, blockId)
       IN /\ at.pageIndex >= 0
          /\ Done([m EXCEPT !.caret =
                       [focus |-> "editor", text |-> r.text,
                        payload |-> r.payload, after |-> r.after,
                        offset |-> Len(r.text), key |-> null]],
                  "focus", [blockId |-> blockId, was |-> Was])
          /\ Tracked(m)

FocusRegion(bound) == \E blockId \in DomBlockIds : FocusRegionOn(blockId, bound)

\* the user presses '/' in the region that has the focus: the keydown event
KeydownSlash(bound) ==
    /\ steps < bound
    /\ caret.key = null
    /\ editorHasFocus(Machine)
    /\ typed < MaxText
    /\ LET m == eachKeydown(Machine, textEditorInits(Machine))
       IN /\ Done([m EXCEPT !.caret.key = "/"], "keydown",
                  [key |-> "/", was |-> Was])
          /\ Tracked(m)

\* the '/' enters the text: the input event
InputSlash(bound) ==
    /\ caret.key # null
    /\ LET m == eachInput(insertData(Machine, <<caret.key>>),
                          textEditorInits(Machine))
       IN /\ Done(m, "input", [data |-> <<caret.key>>, was |-> Was])
          /\ Tracked(m)

\* the user types another character: its input event
TypeKey(c, bound) ==
    /\ steps < bound
    /\ caret.key = null
    /\ editorHasFocus(Machine)
    /\ typed < MaxText
    /\ LET m == eachInput(insertData(Machine, <<c>>), textEditorInits(Machine))
       IN /\ Done(m, "input", [data |-> <<c>>, was |-> Was])
          /\ Tracked(m)

Type(bound) == \E c \in Keys \ {"/"} : TypeKey(c, bound)

\* the user presses Tab in the region that has the focus
KeydownTab(bound) ==
    /\ steps < bound
    /\ caret.key = null
    /\ editorHasFocus(Machine)
    /\ typed + 4 * textEditorInits(Machine) <= MaxText
    /\ LET m == keydownTab(Machine, textEditorInits(Machine))
       IN /\ Done(m, "tab", [data |-> SubSeq(m.caret.text, caret.offset + 1,
                                             m.caret.offset),
                             was |-> Was])
          /\ Tracked(m)

\* Backspace with a character before the caret, in a region whose block
\* handleEditorKeydown does not delete: the input event
Backspace(bound) ==
    /\ steps < bound
    /\ caret.key = null
    /\ editorHasFocus(Machine)
    /\ caret.offset > 0
    /\ \/ \E i \in 1..Len(caret.text) : caret.text[i] \notin {" ", nbsp}
       \/ Len(caret.payload) > 0
       \/ Len(dom[domPageOf(dom, activeEditor.blockId)].blocks) <= 1
    /\ LET m == eachInput(deleteData(Machine), textEditorInits(Machine))
       IN /\ Done(m, "input", [data |-> <<>>, was |-> Was])
          /\ Tracked(m)

\* Home: the caret goes to the start of the text
Home(bound) ==
    /\ steps < bound
    /\ caret.key = null
    /\ editorHasFocus(Machine)
    /\ caret.offset > 0
    /\ Done([Machine EXCEPT !.caret.offset = 0], "home", [was |-> Was])
    /\ UNCHANGED <<run, pres, base>>

\* the timeout of showMentionPanel runs
FocusTimeout(bound) ==
    /\ steps < bound
    /\ caret.key = null
    /\ tasks.focus > 0
    /\ Done(focusSearchInput(Machine), "focusTimeout", [was |-> Was])
    /\ UNCHANGED <<run, pres, base>>

\* the user edits the search input: its input event
SearchInputTo(value, bound) ==
    /\ steps < bound
    /\ searchHasFocus
    /\ value # mention.value
    /\ LET m == updateMentionPanel([Machine EXCEPT !.mention.value = value],
                                   [query |-> value])
       IN /\ Done(m, "searchInput", [value |-> value, was |-> Was])
          /\ Tracked(m)

SearchInput(bound) == \E value \in Queries : SearchInputTo(value, bound)

\* the focus leaves the search input for something outside the panel
SearchBlur(bound) ==
    /\ steps < bound
    /\ searchHasFocus
    /\ Done(searchInputBlur(Machine), "searchBlur", [was |-> Was])
    /\ UNCHANGED <<run, pres, base>>

\* the focus leaves the active region for something outside the panel and
\* the toolbar
EditorBlur(bound) ==
    /\ steps < bound
    /\ caret.key = null
    /\ editorHasFocus(Machine)
    /\ LET m == editorBlur(Machine)
       IN Done(m, "blur", [was |-> Was]) /\ Tracked(m)

\* Escape, the panel being visible: the keydown handler of the panel
KeydownEscape(bound) ==
    /\ steps < bound
    /\ caret.key = null
    /\ mention.isVisible
    /\ LET m == hideMentionPanel(Machine)
       IN Done(m, "escape", [was |-> Was]) /\ Tracked(m)

\* ArrowDown or ArrowUp, the panel being visible
KeydownArrow(bound) ==
    /\ steps < bound
    /\ caret.key = null
    /\ mention.isVisible
    /\ \E direction \in {1, -1} :
          Done(navigateMentionItems(Machine, direction), "arrow",
               [direction |-> direction, was |-> Was])
    /\ UNCHANGED <<run, pres, base>>

\* Enter outside the editable regions, the panel being visible
KeydownEnter(bound) ==
    /\ steps < bound
    /\ caret.key = null
    /\ mention.isVisible
    /\ ~editorHasFocus(Machine)
    /\ \E lands \in BOOLEAN :
          LET m == selectCurrentMentionItem([Machine EXCEPT !.execCommand = lands])
          IN /\ Done(m, "select",
                     [itemId |-> IF mention.selected >= 0
                                 THEN mention.items[mention.selected + 1]
                                 ELSE null,
                      was |-> Was])
             /\ Tracked(m)

\* a click on a suggestion, the focus having left the region and the search
\* input when the button went down
ItemClickOn(itemId, bound) ==
    /\ steps < bound
    /\ caret.key = null
    /\ mention.isVisible
    /\ ~editorHasFocus(Machine) /\ ~searchHasFocus
    /\ \E lands \in BOOLEAN :
          LET m == selectMentionItem([Machine EXCEPT !.execCommand = lands],
                                     itemId)
          IN /\ Done(m, "select", [itemId |-> itemId, was |-> Was])
             /\ Tracked(m)

ItemClick(bound) ==
    \E i \in 1..Len(mention.items) : ItemClickOn(mention.items[i], bound)

\* a click on something that is neither in the panel nor an input element,
\* the panel being visible: the click handler of the panel
ClickOutside(bound) ==
    /\ steps < bound
    /\ caret.key = null
    /\ mention.isVisible
    /\ ~searchHasFocus
    /\ LET m == hideMentionPanel(Machine)
       IN Done(m, "clickOutside", [was |-> Was]) /\ Tracked(m)

\* the timeout of the search input's blur handler runs
HideTimeout(bound) ==
    /\ steps < bound
    /\ caret.key = null
    /\ tasks.hide > 0
    /\ LET m == hideMentionPanel([Machine EXCEPT !.tasks.hide = @ - 1])
       IN Done(m, "hideTimeout", [was |-> Was]) /\ Tracked(m)

\* the timeout of handleEditorBlur runs
BlurTimeout(bound) ==
    /\ steps < bound
    /\ caret.key = null
    /\ tasks.blur > 0
    /\ Done(blurTimeout(Machine), "blurTimeout", [was |-> Was])
    /\ UNCHANGED <<run, pres, base>>

\* the user works with the '/' menu in the editable regions
NextMention ==
    \/ FocusRegion(MaxMentionSteps) \/ EditorBlur(MaxMentionSteps)
    \/ KeydownSlash(MaxMentionSteps) \/ InputSlash(MaxMentionSteps)
    \/ Type(MaxMentionSteps) \/ Backspace(MaxMentionSteps)
    \/ KeydownTab(MaxMentionSteps)
    \/ Home(MaxMentionSteps)
    \/ FocusTimeout(MaxMentionSteps) \/ SearchInput(MaxMentionSteps)
    \/ SearchBlur(MaxMentionSteps)
    \/ KeydownEscape(MaxMentionSteps) \/ KeydownArrow(MaxMentionSteps)
    \/ KeydownEnter(MaxMentionSteps) \/ ItemClick(MaxMentionSteps)
    \/ ClickOutside(MaxMentionSteps)
    \/ HideTimeout(MaxMentionSteps) \/ BlurTimeout(MaxMentionSteps)

SpecMention == Init /\ [][NextMention]_vars

(***************************************************************************)
(* The host saves the state and loads it again, while the user works on    *)
(* the pages.                                                              *)
(***************************************************************************)
SaveState(bound) ==
    /\ steps < bound
    /\ tasks.save < MaxPending
    /\ LET m == saveState(Machine)
       IN Done(m, "saveState", <<>>) /\ Tracked(m)

\* the timeout of saveState runs
SaveStateTimeout(bound) ==
    /\ steps < bound
    /\ tasks.save > 0
    /\ canRun(tasks.order, saveStateDelay)
    /\ LET m == saveStateTimeout(Machine)
       IN Done(m, "saveStateTimeout", <<>>) /\ Tracked(m)

LoadState(bound) ==
    /\ steps < bound
    /\ LET m == loadState(Machine)
       IN Done(m, "loadState", [was |-> [localStorage |-> localStorage]])
          /\ Tracked(m)

\* what the user writes into a header or footer
StoreHtml == { innerHTML(<<Element("p", <<Attr(aClass, "c")>>, <<Text("b")>>)>>) }

NextStore ==
    \/ SaveState(MaxStoreSteps) \/ SaveStateTimeout(MaxStoreSteps)
    \/ LoadState(MaxStoreSteps)
    \/ AddNewPage(MaxStoreSteps)
    \/ HeaderFooterChange(StoreHtml, MaxStoreSteps)

SpecStore == Init /\ [][NextStore]_vars

(***************************************************************************)
(* The saves: the user leaves an edited region, clicks the save and the    *)
(* publish button, the host saves and loads the state and undoes, redoes   *)
(* and resets, and the timeouts of the saves run.  The timeouts take no    *)
(* step of the user's: the pending ones can always run.                    *)
(***************************************************************************)
\* a further save may start
MaySave(bound) == steps < bound /\ Len(tasks.order) < MaxInFlight

SaveBlur(bound) ==
    /\ Len(tasks.order) < MaxInFlight
    /\ Blur(bound)

SaveTemplate(bound) ==
    /\ MaySave(bound)
    /\ LET m == handleSaveTemplate(Machine)
       IN Done(m, "saveTemplate", <<>>) /\ Tracked(m)

Publish(bound) ==
    /\ MaySave(bound)
    /\ LET m == publishTemplate(Machine)
       IN Done(m, "publish", <<>>) /\ Tracked(m)

\* the timeout of publishTemplate runs
PublishTimeout(bound) ==
    /\ steps < bound
    /\ tasks.publish > 0
    /\ canRun(tasks.order, publishDelay)
    /\ LET m == published(Machine)
       IN Done(m, "published", <<>>) /\ Tracked(m)

HostSaveState(bound) ==
    /\ Len(tasks.order) < MaxInFlight
    /\ SaveState(bound)

\* the timeouts of the saves
Timeouts(bound) ==
    \/ AutoSaveTimeout(bound) \/ PublishTimeout(bound)
    \/ SaveStateTimeout(bound)

NextSave ==
    \/ Focus(MaxSaveSteps) \/ SaveBlur(MaxSaveSteps)
    \/ SaveTemplate(MaxSaveSteps) \/ Publish(MaxSaveSteps)
    \/ HostSaveState(MaxSaveSteps) \/ LoadState(MaxSaveSteps)
    \/ Undo(MaxSaveSteps) \/ Redo(MaxSaveSteps) \/ Reset(MaxSaveSteps)
    \/ Timeouts(MaxSaveSteps + MaxInFlight)

SpecSave == Init /\ [][NextSave]_vars

(***************************************************************************)
(* The writes to ui: the user moves the focus, opens and cancels the '/'   *)
(* menu, changes the tab and saves, and undoes and redoes between two      *)
(* keys.                                                                   *)
(***************************************************************************)
\* the data-tab of the tabs
Tabs == {"create", "preview"}

TabChange(bound) ==
    /\ steps < bound
    /\ caret.key = null
    /\ \E tabName \in Tabs :
          LET m == handleTabChange(Machine, tabName)
          IN Done(m, "tabChange", [tabName |-> tabName]) /\ Tracked(m)

UiSaveTemplate(bound) == caret.key = null /\ SaveTemplate(bound)

UiAutoSaveTimeout(bound) == caret.key = null /\ AutoSaveTimeout(bound)

UiUndo(bound) == caret.key = null /\ Undo(bound)

UiRedo(bound) == caret.key = null /\ Redo(bound)

NextUi ==
    \/ FocusRegion(MaxUiSteps) \/ EditorBlur(MaxUiSteps)
    \/ BlurTimeout(MaxUiSteps)
    \/ KeydownSlash(MaxUiSteps) \/ InputSlash(MaxUiSteps)
    \/ KeydownEscape(MaxUiSteps)
    \/ TabChange(MaxUiSteps)
    \/ UiSaveTemplate(MaxUiSteps) \/ UiAutoSaveTimeout(MaxUiSteps)
    \/ UiUndo(MaxUiSteps) \/ UiRedo(MaxUiSteps)

SpecUi == Init /\ [][NextUi]_vars

(***************************************************************************)
(* The history is a part of the state: its paths are paths update takes.   *)
(* The host writes the name kept by the oldest entry, and it writes        *)
(* 'history' as CPQEditor.loadState does, here with an empty history.      *)
(***************************************************************************)
pPastName0 == join(<<kHistory, kPast, k0, kDocument, kName>>)

HistoryUpdates ==
    { Single(pPastName0, "X"),
      Single(kHistory, [past |-> <<>>, future |-> <<>>]) }

UpdateHistory(bound) ==
    /\ Len(state.history.past) > 0
    /\ \E u \in HistoryUpdates : UpdateWith(u, bound)

NextHistory ==
    \/ Update(MaxHistorySteps) \/ UpdateHistory(MaxHistorySteps)
    \/ Undo(MaxHistorySteps) \/ Redo(MaxHistorySteps)
    \/ Reset(MaxHistorySteps)

SpecHistory == Init /\ [][NextHistory]_vars

(***************************************************************************)
(* StateManager on its own, before CPQEditor.init registers a component:   *)
(* its callers read and write any path with any value.                     *)
(***************************************************************************)
kX == <<"x">>
kY == <<"y">>

\* paths below a key the state does not have, below a string, a number and
\* null, and past the end of an array
Paths ==
    { kX, join(<<kX, kY>>), join(<<kX, kY, kX>>), join(<<kX, k0>>),
      join(<<kDocument, kName, kX>>), join(<<kUi, kCurrentPage, kX>>),
      join(<<kUi, kActiveElement, kX>>),
      join(<<kDocument, kPages, k1, kHeader>>) }

\* the values written: null, numbers, strings, a mapping, a sequence
PathValues ==
    { jsNull, jsNumber(0), jsNumber(7), jsString(<<>>), jsString(<<"a","b">>),
      jsObject(<<Prop("y", jsNumber(1))>>), jsArray(<<jsNumber(1)>>) }

InitPaths ==
    /\ state = jsInitialState
    /\ changedPaths = <<>>
    /\ listeners = <<>>
    /\ dom = <<>>
    /\ activeEditor = noEditor
    /\ seed = FirstSeed
    /\ timers = 0
    /\ mention = noMention
    /\ mentionTriggerPos = noTriggerPos
    /\ caret = noCaret
    /\ tasks = noTasks
    /\ localStorage = noItem
    /\ inserted = <<>>
    /\ op = [name |-> "init", arg |-> <<>>, n |-> 0]
    /\ pre = jsInitialState
    /\ calls = <<>>
    /\ emitted = <<>>
    /\ commits = 0
    /\ steps = 0
    /\ run = Off
    /\ pres = <<>>
    /\ base = 0

\* StateManager.update(path, value)
UpdatePath(bound) ==
    /\ steps < bound
    /\ \E path \in Paths, value \in PathValues :
         LET r == jsUpdate(Machine, path, value)
         IN Done(r.m, "update",
                 [path |-> path, value |-> value, threw |-> r.threw])
    /\ UNCHANGED <<run, pres, base>>

\* StateManager.get(path)
GetPath(bound) ==
    /\ steps < bound
    /\ \E path \in Paths \cup {pName, pCurrentPage} :
         Done(Machine, "get", [path |-> path, result |-> jsGet(state, path)])
    /\ UNCHANGED <<run, pres, base>>

NextPaths == UpdatePath(MaxPathSteps) \/ GetPath(MaxPathSteps)

SpecPaths == InitPaths /\ [][NextPaths]_vars

(***************************************************************************)
(* Properties.                                                             *)
(***************************************************************************)
\* the document and the session state of a full state, without its history
Content(s) == [document |-> s.document, ui |-> s.ui]

\* the last operation was an update that wrote at least one path
Committed == op.name = "update" /\ commits > 0

\* the paths an update's argument writes, in order
WrittenPaths(u) ==
    IF u.single THEN <<u.path>>
    ELSE [i \in 1..Len(u.entries) |-> u.entries[i].path]

\* the values an update's argument writes, in the same order
WrittenValues(u) ==
    IF u.single THEN <<u.value>>
    ELSE [i \in 1..Len(u.entries) |-> u.entries[i].value]

RECURSIVE ExistsIn(_, _)
ExistsIn(current, parts) ==
    \/ Len(parts) = 0
    \/ /\ Key(parts[1]) \in DOMAIN current
       /\ ExistsIn(current[Key(parts[1])], Tail(parts))

\* s holds value at path
Holds(s, path, value) ==
    /\ ExistsIn(s, split(path))
    /\ getValueAtPath(s, path) = value

C2_HistoryCap ==
    (base = 0 /\ Len(pres) > HistoryLimit) =>
        state.history.past =
            SubSeq(pres, Len(pres) - HistoryLimit + 1, Len(pres))

C2_Witness ==
    /\ base = 0 /\ Len(pres) > HistoryLimit
    /\ Len(state.history.past) = HistoryLimit
    /\ state.history.past[1] # state.history.past[2]

\* C3: in every reachable state, past holds at most HistoryLimit entries.
C3_PastWithinLimit == Len(state.history.past) <= HistoryLimit

\* C4: after an update that writes at least one path, future is empty and the
\* last entry of past equals the full state as it was before the update.
C4_UpdateSnapshot ==
    Committed =>
        /\ state.history.future = <<>>
        /\ Len(state.history.past) > 0
        /\ Last(state.history.past) = pre

C4_Witness ==
    /\ Committed
    /\ Len(pre.history.future) > 0
    /\ Len(pre.history.past) > 0

\* C5: an update that changes no stored value (it writes no path, or every
\* value it writes equals the value already stored at its path) adds no entry
\* to past, leaves future as it was and notifies nobody.
C5_NoChangeNoSlot ==
    ( /\ op.name = "update"
      /\ \A i \in 1..Len(WrittenPaths(op.arg)) :
            Holds(pre, WrittenPaths(op.arg)[i], WrittenValues(op.arg)[i]) )
    => /\ state.history = pre.history
       /\ emitted = <<>>
       /\ calls = <<>>

\* C6: undo with an empty past changes nothing and emits nothing; otherwise
\* the most recent past entry becomes current (document and ui), the new past
\* is the old past without its last entry, and the new future is the old
\* current state followed by the old future.
C6_Undo ==
    op.name = "undo" =>
        IF Len(pre.history.past) = 0
        THEN state = pre /\ emitted = <<>> /\ calls = <<>>
        ELSE /\ Content(state) = Content(Last(pre.history.past))
             /\ state.history.past = Front(pre.history.past)
             /\ state.history.future = <<pre>> \o pre.history.future

\* C7: redo with an empty future changes nothing and emits nothing; otherwise
\* the earliest future entry becomes current (document and ui), the new past
\* is the old past with the old current state appended, and the new future is
\* the old future without its first entry.
C7_Redo ==
    op.name = "redo" =>
        IF Len(pre.history.future) = 0
        THEN state = pre /\ emitted = <<>> /\ calls = <<>>
        ELSE /\ Content(state) = Content(Head(pre.history.future))
             /\ state.history.past = Append(pre.history.past, pre)
             /\ state.history.future = Tail(pre.history.future)

C7_Witness ==
    /\ op.name = "redo"
    /\ Len(pre.history.future) = 2
    /\ Len(pre.history.past) > 0
    /\ Content(state) # Content(pre)

\* a is a proper prefix of b, segment by segment
IsProperPrefix(a, b) == Len(a) < Len(b) /\ SubSeq(b, 1, Len(a)) = a

\* the three-way rule on dot-separated segments: the same path, or one an
\* ancestor of the other
Matches(w, c) ==
    LET ws == split(w)
        cs == split(c)
    IN ws = cs \/ IsProperPrefix(ws, cs) \/ IsProperPrefix(cs, ws)

\* some path watched by listener i matches some path written by u
ShouldFire(i, u) ==
    \E a \in 1..Len(listeners[i].pathArray), b \in 1..Len(WrittenPaths(u)) :
        Matches(listeners[i].pathArray[a], WrittenPaths(u)[b])

\* the last operation invoked the callback of listener i
Invoked(i) == \E c \in 1..Len(calls) : calls[c].watcher = i

\* C8: the callback of a watcher is invoked for a commit exactly when one of
\* its watched paths equals, is an ancestor of or is a descendant of one of
\* the commit's changed paths, by dot-separated segments.
C8_WatchRule ==
    Committed => \A i \in 1..op.n : Invoked(i) <=> ShouldFire(i, op.arg)

C8_Witness ==
    /\ Committed
    /\ op.arg.single /\ op.arg.path = pPage1
    /\ \E i \in 1..op.n : listeners[i].pathArray = <<pPage10>> /\ ~Invoked(i)
    /\ \E i \in 1..op.n : listeners[i].pathArray = <<pPages>> /\ Invoked(i)

\* C9: for an update that writes at least one path, every matching watcher is
\* invoked exactly once, in registration order, within the update, and sees
\* the store with the new values and the history entry in place.
C9_NotifyOnce ==
    Committed =>
        /\ emitted = <<"state:changed">>
        /\ \A i \in 1..op.n : ShouldFire(i, op.arg) => Invoked(i)
        /\ \A a, b \in 1..Len(calls) :
              a < b => calls[a].watcher < calls[b].watcher
        /\ \A c \in 1..Len(calls) :
              /\ calls[c].watcher <= op.n
              /\ calls[c].changedPaths = WrittenPaths(op.arg)
              /\ Last(calls[c].live.history.past) = pre
              /\ calls[c].live.history.future = <<>>
              /\ \A k \in 1..Len(WrittenPaths(op.arg)) :
                    Holds(calls[c].live, WrittenPaths(op.arg)[k],
                          WrittenValues(op.arg)[k])

C9_Witness ==
    /\ Committed
    /\ Len(WrittenPaths(op.arg)) > 1
    /\ Len(calls) >= 3
    /\ \E c \in 1..Len(calls) :
          LET w == listeners[calls[c].watcher].pathArray
          IN \E a, b \in 1..Len(w) :
                /\ a # b
                /\ hasPathChanged(WrittenPaths(op.arg), w[a])
                /\ hasPathChanged(WrittenPaths(op.arg), w[b])

\* C10: the watchers notified for a commit are those matching that commit's
\* own changed paths, also when a callback updates other paths meanwhile.
C10_OuterCommitOwnPaths ==
    Committed =>
        \A i \in 1..op.n :
            (\E c \in 1..Len(calls) :
                calls[c].watcher = i /\ calls[c].commit = 1)
            <=> ShouldFire(i, op.arg)

\* the pages of a full state
Pages(s) == s.document.pages

\* C11: deletePage on a document with exactly one page leaves the whole state
\* unchanged (document, ui, history), commits nothing and notifies nobody; and
\* in every reachable state the document has at least one page.
C11_LastPageKept ==
    /\ Len(Pages(state)) >= 1
    /\ (op.name = "deletePage" /\ Len(Pages(pre)) = 1) =>
          state = pre /\ commits = 0 /\ emitted = <<>> /\ calls = <<>>

C11_Witness ==
    /\ op.name = "deletePage" /\ op.arg.confirmed
    /\ Len(Pages(pre)) = 1
    /\ Pages(pre)[1].id = op.arg.pageId
    /\ Len(pre.history.past) > 0
    /\ Len(pre.history.future) > 0

\* C12: every page has at least one block in every reachable state, and a
\* deleteBlock for the only block of its page changes nothing.
C12_LastBlockKept ==
    /\ \A i \in 1..Len(Pages(state)) : Len(Pages(state)[i].blocks) >= 1
    /\ ( /\ op.name = "backspace"
         /\ LET at == findBlock(Pages(pre), op.arg.blockId)
            IN /\ at.pageIndex >= 0
               /\ Len(Pages(pre)[at.pageIndex + 1].blocks) = 1 )
       => state = pre

\* the ids of the blocks of a page
BlockIds(page) == { page.blocks[j].id : j \in 1..Len(page.blocks) }

\* the last operation was duplicatePage for a page of the document
Duplicated ==
    op.name = "duplicatePage" /\ findIndex(Pages(pre), op.arg.pageId) >= 0

\* the place (from 1) of the page duplicatePage was called for
SourcePlace == findIndex(Pages(pre), op.arg.pageId) + 1

\* C13: the copy made by duplicatePage has an id no page had before and block
\* ids no block had before; its header, footer and settings and the type and
\* content of its blocks, in order, equal the source's; the source page is as
\* it was.
C13_DuplicateFreshCopy ==
    Duplicated =>
        /\ Len(Pages(state)) > SourcePlace
        /\ LET source == Pages(pre)[SourcePlace]
               copy == Pages(state)[SourcePlace + 1]
           IN /\ \A k \in 1..Len(Pages(pre)) : Pages(pre)[k].id # copy.id
              /\ \A k \in 1..Len(Pages(pre)) :
                    BlockIds(copy) \cap BlockIds(Pages(pre)[k]) = {}
              /\ copy.header = source.header
              /\ copy.footer = source.footer
              /\ copy.settings = source.settings
              /\ Len(copy.blocks) = Len(source.blocks)
              /\ \A j \in 1..Len(source.blocks) :
                    /\ copy.blocks[j].type = source.blocks[j].type
                    /\ copy.blocks[j].content = source.blocks[j].content
              /\ Pages(state)[SourcePlace] = source

C13_Witness ==
    /\ Duplicated
    /\ LET source == Pages(pre)[SourcePlace]
       IN /\ Len(source.blocks) = 2
          /\ source.blocks[1].content # ""
          /\ source.header # ""

\* C14: duplicatePage for the page at index i puts the copy at index i + 1,
\* keeps the pages that existed, unchanged and in their order, and sets
\* ui.currentPage to i + 1.
C14_DuplicateAfterSource ==
    Duplicated =>
        /\ Len(Pages(state)) = Len(Pages(pre)) + 1
        /\ \A k \in 1..SourcePlace : Pages(state)[k] = Pages(pre)[k]
        /\ \A k \in (SourcePlace + 1)..Len(Pages(pre)) :
              Pages(state)[k + 1] = Pages(pre)[k]
        /\ \A k \in 1..Len(Pages(pre)) :
              Pages(pre)[k].id # Pages(state)[SourcePlace + 1].id
        /\ state.ui.currentPage = SourcePlace

C14_Witness ==
    /\ Duplicated
    /\ SourcePlace > 1
    /\ SourcePlace < Len(Pages(pre))
    /\ pre.ui.currentPage # SourcePlace

\* the last operation was a confirmed deletePage for a page of a document
\* with two pages or more
Deleted ==
    /\ op.name = "deletePage" /\ op.arg.confirmed
    /\ Len(Pages(pre)) >= 2
    /\ findIndex(Pages(pre), op.arg.pageId) >= 0

\* the index of that page
DeletedIndex == findIndex(Pages(pre), op.arg.pageId)

\* C15: a confirmed deletePage for the page at index d of a document with two
\* pages or more removes that page and no other, keeps the others unchanged
\* and in order, and sets ui.currentPage to max(0, c - 1) when d <= c, c being
\* the previous ui.currentPage, and leaves it at c otherwise.
C15_DeleteAndClamp ==
    Deleted =>
        /\ Len(Pages(state)) = Len(Pages(pre)) - 1
        /\ \A k \in 1..DeletedIndex : Pages(state)[k] = Pages(pre)[k]
        /\ \A k \in (DeletedIndex + 2)..Len(Pages(pre)) :
              Pages(state)[k - 1] = Pages(pre)[k]
        /\ state.ui.currentPage =
              IF DeletedIndex <= pre.ui.currentPage
              THEN max(0, pre.ui.currentPage - 1)
              ELSE pre.ui.currentPage

C15_Witness ==
    /\ Deleted
    /\ DeletedIndex = 1
    /\ pre.ui.currentPage = 1
    /\ Len(Pages(pre)) = 3
    /\ Len(pre.history.past) = HistoryLimit
    /\ Last(pre.history.past).ui.currentPage = 0

\* the operations that change the document on the user's behalf
Mutations ==
    {"addNewPage", "duplicatePage", "deletePage", "addBlockAfter",
     "backspace", "saveBlockContent", "headerFooter"}

\* the last operation was one of them and changed the document
Mutated == op.name \in Mutations /\ state.document # pre.document

\* C16: each successful user-visible mutation (addNewPage, duplicatePage,
\* deletePage, addBlockAfter, deleteBlock, saving a block's content, saving a
\* header or a footer) adds exactly one entry to history.past, so that one
\* undo right after it gives back the document as it was before.
C16_OneUndoStep ==
    Mutated =>
        /\ commits = 1
        /\ undo(Machine).state.document = pre.document

\* a script element among the nodes or below them
RECURSIVE HasScript(_)
HasScript(nodes) ==
    \E i \in 1..Len(nodes) :
        nodes[i].tag = "script" \/ HasScript(nodes[i].children)

\* an element with an on* attribute among the nodes or below them
RECURSIVE HasOnAttribute(_)
HasOnAttribute(nodes) ==
    \E i \in 1..Len(nodes) :
        \/ \E a \in 1..Len(nodes[i].attrs) :
              startsWith(nodes[i].attrs[a].name, kOn)
        \/ HasOnAttribute(nodes[i].children)

\* the contents of the blocks of s
BlockTexts(s) ==
    UNION { { Pages(s)[i].blocks[j].content :
                j \in 1..Len(Pages(s)[i].blocks) } :
            i \in 1..Len(Pages(s)) }

\* the headers and footers of the pages of s
HeaderFooterTexts(s) ==
    { Pages(s)[i].header : i \in 1..Len(Pages(s)) }
        \cup { Pages(s)[i].footer : i \in 1..Len(Pages(s)) }

\* C17: every rich-text value stored as a block's content, a header or a
\* footer went through sanitizeHtml first: in every reachable state none of
\* them holds a script element or an attribute whose name starts with on.
C17_StoredRichTextSanitized ==
    \A html \in BlockTexts(state) \cup HeaderFooterTexts(state) :
        /\ ~HasScript(parseHtml(html))
        /\ ~HasOnAttribute(parseHtml(html))

\* the last operation was a page operation for an id that no page of the
\* document had (deletePage: of a document with two pages or more)
UnknownPage ==
    /\ \/ op.name \in {"duplicatePage", "headerFooter"}
       \/ op.name = "deletePage" /\ Len(Pages(pre)) >= 2
    /\ findIndex(Pages(pre), op.arg.pageId) = -1

\* the last operation was a block operation for an id that no block of the
\* document had
UnknownBlock ==
    /\ op.name \in {"addBlockAfter", "backspace", "saveBlockContent"}
    /\ findBlock(Pages(pre), op.arg.blockId).pageIndex = -1

\* C18: duplicatePage, deletePage (of a document with two pages or more),
\* addBlockAfter, deleteBlock, a block-content save and a header or footer
\* save for an id that matches no page or block leave the state as it was:
\* the same document and ui, no history entry, no notification.
C18_UnknownIdNoOp ==
    (UnknownPage \/ UnknownBlock) =>
        /\ state = pre
        /\ commits = 0
        /\ emitted = <<>>
        /\ calls = <<>>

\* every segment of the path names an own property of the node it is read from
RECURSIVE ResolvesIn(_, _)
ResolvesIn(current, parts) ==
    \/ Len(parts) = 0
    \/ /\ hasOwnProperty(current, str(parts[1]))
       /\ ResolvesIn(ownProperty(current, str(parts[1])), Tail(parts))

\* C19: get(path) for a path that does not resolve in the state tree, a key
\* missing at some depth, returns undefined, raises no error and leaves the
\* state unchanged.
C19_GetMissingIsUndefined ==
    (op.name = "get" /\ ~ResolvesIn(pre, split(op.arg.path))) =>
        /\ ~op.arg.result.threw
        /\ op.arg.result.value = jsUndefined
        /\ state = pre

\* C20: after update(p, v), get(p) returns a value deep-equal to v, the
\* intermediate nodes having been created as needed, whatever sat at the
\* prefixes of p before: nothing, an empty string, null, a number, a string,
\* a mapping or a sequence.
C20_GetAfterUpdate ==
    op.name = "update" =>
        /\ ~op.arg.threw
        /\ jsGet(state, op.arg.path) = Returned(op.arg.value)

(***************************************************************************)
(* The '/' menu: claims C21 to C29, under SpecMention.                     *)
(***************************************************************************)
\* a and b are the same character, or the same letter in two cases
SameIgnoringCase(a, b) ==
    \/ a = b
    \/ \E k \in 1..Len(UpperCase) :
          {a, b} = {UpperCase[k], LowerCase[k]}

\* q occurs in s as a substring, the case of letters ignored
ContainsIgnoringCase(s, q) ==
    \E i \in 0..(Len(s) - Len(q)) :
        \A j \in 1..Len(q) : SameIgnoringCase(s[i + j], q[j])

\* the catalog entry at place i matches q
MatchesQuery(i, q) ==
    \/ ContainsIgnoringCase(suggestions[i].label, q)
    \/ ContainsIgnoringCase(suggestions[i].description, q)

\* the place in the catalog of the entry with this id (0: none)
PlaceOf(id) ==
    IF \E i \in 1..Len(suggestions) : suggestions[i].id = id
    THEN CHOOSE i \in 1..Len(suggestions) : suggestions[i].id = id
    ELSE 0

\* ids is the ids of the entries that match q, each once, in catalog order
IsMatchesInOrder(ids, q) ==
    /\ \A a \in 1..Len(ids) : PlaceOf(ids[a]) > 0 /\ MatchesQuery(PlaceOf(ids[a]), q)
    /\ \A i \in 1..Len(suggestions) :
          MatchesQuery(i, q) => \E a \in 1..Len(ids) : ids[a] = suggestions[i].id
    /\ \A a, b \in 1..Len(ids) : a < b => PlaceOf(ids[a]) < PlaceOf(ids[b])

CatalogIds == [i \in 1..Len(suggestions) |-> suggestions[i].id]

TableIds == <<"table", "table-2x2", "table-3x3", "table-4x4">>

\* the panel has just filtered the catalog
Filtered ==
    /\ op.name \in {"keydown", "input", "searchInput"}
    /\ mention.isVisible

\* C21: whenever the panel has filtered the catalog by its query, the
\* items it lists are exactly the catalog entries whose label or description
\* contains the query with the case of letters ignored, in catalog order;
\* the empty query lists the whole catalog, and 'table' in any case lists
\* the four tables and nothing else.
C21_FilterItems ==
    Filtered =>
        /\ IsMatchesInOrder(mention.items, mention.currentQuery)
        /\ mention.currentQuery = <<>> => mention.items = CatalogIds
        /\ toLowerCase(mention.currentQuery) = <<"t","a","b","l","e">>
               => mention.items = TableIds

C21_Witness ==
    /\ Filtered
    /\ op.name = "searchInput"
    /\ mention.currentQuery = <<"t","A","b","L","e">>
    /\ mention.items = TableIds

\* the keydown of '/' in a region, no session being active before it
Triggered ==
    /\ op.name = "keydown"
    /\ op.arg.was.mentionTriggerPos = noTriggerPos
    /\ ~op.arg.was.mention.isVisible

IsWhitespace(c) == c \in {" ", nbsp, "\t", "\n"}

\* a session is active in the region: TextEditor holds its anchor and the
\* panel is visible
InSession(was) == was.mentionTriggerPos # noTriggerPos /\ was.mention.isVisible

\* characters have just entered the text at the caret, which was at or
\* after the anchor of the session, and the text from the anchor to the
\* caret now contains white space
WhitespaceEntered ==
    /\ op.name \in {"input", "tab"}
    /\ Len(op.arg.data) > 0
    /\ InSession(op.arg.was)
    /\ op.arg.was.caret.offset >= op.arg.was.mentionTriggerPos[1].range
    /\ \E i \in (op.arg.was.mentionTriggerPos[1].range + 1)..caret.offset :
          IsWhitespace(caret.text[i])

\* C23: when the text between the anchor and the caret of a session has come
\* to contain white space, the session is cancelled: the panel is hidden
\* and TextEditor holds no anchor and no query, so that no item can be
\* selected.
C23_WhitespaceCancels ==
    WhitespaceEntered =>
        /\ ~mention.isVisible
        /\ state.ui.showMentionPanel = FALSE
        /\ mentionTriggerPos = noTriggerPos

\* an input event has been handled in a session
InputInSession ==
    /\ op.name \in {"input", "tab"}
    /\ InSession(op.arg.was)

\* the session has been cancelled by TextEditor: no anchor, no query, the
\* panel hidden
Cancelled ==
    /\ mentionTriggerPos = noTriggerPos
    /\ ~mention.isVisible
    /\ state.ui.showMentionPanel = FALSE

\* the session goes on with the text from anchor to the caret as its query
GoesOnFrom(anchor) ==
    /\ mentionTriggerPos # noTriggerPos
    /\ mentionTriggerPos[1].query = SubSeq(caret.text, anchor + 1, caret.offset)
    /\ mention.currentQuery = mentionTriggerPos[1].query
    /\ mention.isVisible

\* what handleEditorInput does with the caret compared to this anchor
ComparedWith(anchor) ==
    IF caret.offset <= anchor THEN Cancelled
    ELSE IF \E i \in (anchor + 1)..caret.offset : caret.text[i] \in {" ", "\n"}
    THEN Cancelled
    ELSE GoesOnFrom(anchor)

\* the offset the session's trigger had when '/' was pressed
CapturedAnchor == op.arg.was.mentionTriggerPos[1].captured

\* the start of the Range cloned when '/' was pressed, after the event's
\* change of the text: the DOM moves a boundary point that lies after the
\* place of an insertion or a removal
LiveAnchor ==
    LET r == op.arg.was.mentionTriggerPos[1].range
        at == op.arg.was.caret.offset
        n == Len(op.arg.data)
    IN IF n > 0 THEN (IF r > at THEN r + n ELSE r)
       ELSE IF r >= at THEN r - 1
       ELSE r

C25_NoNestedTrigger ==
    (op.name = "keydown" /\ InSession(op.arg.was)) =>
        /\ mentionTriggerPos = op.arg.was.mentionTriggerPos
        /\ mention.currentQuery = op.arg.was.mention.currentQuery
        /\ mention.targetRange = op.arg.was.mention.targetRange

\* Escape has been pressed, or the focus has left the region or the search
\* input for something outside the panel, the regions and the toolbar
EscapedOrLeft == op.name \in {"escape", "blur", "searchBlur"}

\* C26: Escape during a session, or the focus leaving for something outside
\* the panel, the region and the toolbar, ends the session: the panel is
\* hidden and neither TextEditor nor the panel keeps an anchor.
C26_EscapeOrBlurIdle ==
    (EscapedOrLeft /\ InSession(op.arg.was)) =>
        /\ ~mention.isVisible
        /\ state.ui.showMentionPanel = FALSE
        /\ mention.targetRange = null
        /\ mentionTriggerPos = noTriggerPos

\* the content of a block in a state
ContentOf(s, blockId) ==
    LET at == findBlock(s.document.pages, blockId)
    IN s.document.pages[at.pageIndex + 1].blocks[at.blockIndex + 1].content

\* an item has been selected in a session with an active editor, and its
\* payload has entered the region
SelectedAndInserted ==
    /\ op.name = "select"
    /\ InSession(op.arg.was)
    /\ op.arg.was.activeEditor.blockId # null
    /\ \E i \in 1..Len(inserted) : inserted[i].landed

\* C27: when an item has been selected in a session, the block's content
\* holds the text before the anchor, the payload, and the text after the
\* caret, without the '/' and the query that were between them, and the
\* session is over.
C27_SpanDeleted ==
    SelectedAndInserted =>
        LET was == op.arg.was
            r == regionOf(ContentOf(state, was.activeEditor.blockId))
        IN /\ Len(r.payload) > 0
           /\ r.text = SubSeq(was.caret.text, 1, was.mentionTriggerPos[1].range)
           /\ r.after = SubSeq(was.caret.text, was.caret.offset + 1,
                               Len(was.caret.text))
           /\ mentionTriggerPos = noTriggerPos
           /\ ~mention.isVisible

\* an item of the catalog has been selected while an editor was active
SelectedWithEditor ==
    /\ op.name = "select"
    /\ op.arg.itemId # null
    /\ op.arg.was.activeEditor.blockId # null

\* the html of the payload that an item's kind and parameters stand for:
\* none is defined for a field
PayloadOf(item) ==
    IF item.type = "heading" THEN {innerHTML(headingNodes(item.level))}
    ELSE IF item.type = "table" THEN {innerHTML(tableNodes(item.rows, item.cols))}
    ELSE IF item.type = "columns" THEN {innerHTML(columnsNodes(item.count))}
    ELSE {}

\* C28: selecting any item of the catalog while an editor is active makes
\* one insertion of content, which is the payload of the item's kind and
\* parameters.
C28_EveryItemInserts ==
    SelectedWithEditor =>
        /\ Len(inserted) >= 1
        /\ \A i \in 1..Len(inserted) :
              parseHtml(inserted[i].html)
                  \in { parseHtml(html) :
                          html \in PayloadOf(suggestions[PlaceOf(op.arg.itemId)]) }

\* an event that cancels a session has been handled: an input event with
\* the caret at or before the anchor or with a space or a line feed between
\* them, Escape, a click outside the panel, the focus leaving for something
\* outside the panel, the regions and the toolbar
CancelEvent ==
    /\ op.name \in {"input", "tab", "escape", "clickOutside", "blur", "searchBlur"}
    /\ InSession(op.arg.was)
    /\ \/ /\ op.name \in {"input", "tab"}
          /\ \/ caret.offset <= LiveAnchor
             \/ \E i \in (LiveAnchor + 1)..caret.offset :
                   caret.text[i] \in {" ", "\n"}
       \/ op.name \in {"escape", "clickOutside", "blur", "searchBlur"}

\* C29: every event that cancels a session has hidden the panel when it has
\* been handled, and document.pages is what it was before the event.
C29_CancelSynchronous ==
    CancelEvent =>
        /\ ~mention.isVisible
        /\ state.ui.showMentionPanel = FALSE
        /\ state.document.pages = pre.document.pages

(***************************************************************************)
(* Saving and loading: claim C30, under SpecStore.                         *)
(***************************************************************************)
\* loadState has run with an item in localStorage
Loaded == op.name = "loadState" /\ op.arg.was.localStorage # noItem

\* C30: when loadState has run after saveState wrote its item, the document
\* in the state is the document that was saved: the same id and name, the
\* same pages and blocks with the same ids in the same order, the same
\* content, whatever the state held before.
C30_SaveLoadRoundTrip ==
    Loaded =>
        /\ state.document = localStorage[1].saved
        /\ parse(localStorage[1].text).document = localStorage[1].saved

C30_Witness ==
    /\ Loaded
    /\ pre.document # state.document
    /\ state.document = localStorage[1].saved
    /\ Len(pre.document.pages) = 2
    /\ Len(state.document.pages) = 1
    /\ state.document.pages[1].header = "<p class=\"c\">b</p>"
(***************************************************************************)
(* PageManager's own commits: claim C31, under SpecEditor.                 *)
(***************************************************************************)
\* an operation of PageManager has committed
PageManagerCommitted ==
    /\ op.name \in {"addNewPage", "duplicatePage", "deletePage", "headerFooter"}
    /\ commits > 0

\* PageManager's watcher has run renderPagesFromState in this operation
PagesRendered == \E i \in 1..Len(calls) : calls[i].rendered

\* C31: a commit made by an operation of PageManager (addNewPage,
\* duplicatePage, deletePage, a header or footer save) does not run
\* PageManager's renderPagesFromState.
C31_NoOwnRender == PageManagerCommitted => ~PagesRendered
(***************************************************************************)
(* What a history entry holds: claim C32, under Spec.                      *)
(***************************************************************************)
\* the entry holds no entries of its own
HoldsNoHistory(entry) ==
    entry.history.past = <<>> /\ entry.history.future = <<>>

\* C32: no snapshot in history.past or history.future contains snapshots
\* itself: its own past and future are empty, so that a slot costs one
\* document.
C32_FlatSnapshots ==
    /\ \A i \in 1..Len(state.history.past) :
          HoldsNoHistory(state.history.past[i])
    /\ \A i \in 1..Len(state.history.future) :
          HoldsNoHistory(state.history.future[i])
(***************************************************************************)
(* Watchers and the restored state: claim C33, under Spec.                 *)
(***************************************************************************)
\* undo, redo or reset has run
Restored == op.name \in {"undo", "redo", "reset"}

\* the operation has changed the value at a path the watcher watches
ChangedFor(w) ==
    \E k \in 1..Len(w.pathArray) :
        getValueAtPath(pre, w.pathArray[k]) # getValueAtPath(state, w.pathArray[k])

\* the watcher's callback has run in the operation
Notified(i) == \E c \in 1..Len(calls) : calls[c].watcher = i

\* C33: when undo, redo or reset has changed the value at a path a watcher
\* is registered for, the watcher's callback has run.
C33_RestoreNotifies ==
    Restored =>
        \A i \in 1..Len(listeners) : ChangedFor(listeners[i]) => Notified(i)
(***************************************************************************)
(* The handlers the editor has registered: claim C34, under SpecEditor.    *)
(***************************************************************************)
\* C34: after start-up the editor has the handlers CPQEditor.init
\* registered and no more, whatever has been committed: one run of
\* TextEditor.init, hence one subscriber of 'mention:select', one watcher of
\* document.pages by TextEditor and one delegated keydown and input handler.
C34_HandlersConstant ==
    /\ Len(listeners) = Len(appWatchers)
    /\ textEditorInits(Machine) = 1
(***************************************************************************)
(* The status of the saves: claims C35 and C36, under SpecSave.            *)
(***************************************************************************)
Saving == state.ui.autoSaveStatus = "saving"

\* no timeout of a save is pending: nothing happens any more unless the
\* user or the host does something
NoTimeoutPending == Len(tasks.order) = 0

\* C35: ui.autoSaveStatus is not 'saving' when no timeout of a save is
\* pending, so that a status 'saving' always ends as 'saved' or 'error' by
\* the pending timeouts alone.
C35_SavingEnds == NoTimeoutPending => ~Saving

\* a timeout of a save has run while the timeout of a later save is pending
EarlierSaveTimedOut ==
    /\ op.name \in {"autosaved", "published", "saveStateTimeout"}
    /\ Len(tasks.order) > 0

\* C36: when the timeout of a save has run and that of a later save is
\* still pending, ui.autoSaveStatus is not 'saved'.
C36_SavedWhenIdle ==
    EarlierSaveTimedOut => state.ui.autoSaveStatus # "saved"
(***************************************************************************)
(* The query of a session: claim C37, under SpecMention.                   *)
(***************************************************************************)
\* an input event has been handled in a session whose '/' is in the text at
\* the offset captured when it was pressed, the caret being after it with
\* no white space in between, and nothing having entered the text before it
SlashTyped ==
    /\ op.name = "input"
    /\ InSession(op.arg.was)
    /\ LiveAnchor = CapturedAnchor
    /\ caret.offset > CapturedAnchor
    /\ caret.text[CapturedAnchor + 1] = "/"
    /\ \A i \in (CapturedAnchor + 2)..caret.offset : ~IsWhitespace(caret.text[i])

\* the characters typed after the '/'
TypedQuery == SubSeq(caret.text, CapturedAnchor + 2, caret.offset)

\* C37: after '/' and the characters c1..cn typed behind it, the query of
\* the session, of the panel and ui.mentionQuery are c1..cn, without the
\* '/', and the panel lists the catalog filtered by c1..cn.
C37_QueryWithoutTrigger ==
    SlashTyped =>
        /\ mentionTriggerPos # noTriggerPos
        /\ mentionTriggerPos[1].query = TypedQuery
        /\ mention.currentQuery = TypedQuery
        /\ state.ui.mentionQuery = str(TypedQuery)
        /\ mention.items =
              [i \in 1..Len(filterItems(TypedQuery)) |-> filterItems(TypedQuery)[i].id]
(***************************************************************************)
(* The current page: claim C38, under SpecBlocks.                          *)
(***************************************************************************)
\* C38: ui.currentPage is an index of document.pages, counted from 0.
C38_CurrentPageValid ==
    /\ state.ui.currentPage >= 0
    /\ state.ui.currentPage < Len(state.document.pages)

\* the last page has been deleted while it was the current one
C38_Witness ==
    /\ op.name = "deletePage"
    /\ commits > 0
    /\ pre.ui.currentPage = Len(pre.document.pages) - 1
    /\ Len(state.document.pages) = Len(pre.document.pages) - 1
    /\ state.document.pages = SubSeq(pre.document.pages, 1, Len(state.document.pages))
    /\ state.ui.currentPage = Len(state.document.pages) - 1
(***************************************************************************)
(* Writes to ui and the history: claim C39, under SpecUi.                  *)
(***************************************************************************)
\* an operation of the user has written ui and left the document as it was
UiWritten ==
    /\ op.name \in {"focus", "blur", "keydown", "input", "escape",
                    "tabChange", "saveTemplate", "autosaved"}
    /\ state.ui # pre.ui
    /\ state.document = pre.document

\* C39: an operation that writes nothing but ui (the active element on a
\* focus change, the panel shown or hidden, the query, the autosave status,
\* the active tab) pushes the state it found onto history.past and empties
\* history.future: a redo after it does nothing, whatever had been undone.
C39_UiWriteClearsRedo ==
    UiWritten =>
        /\ state.history.future = <<>>
        /\ Len(state.history.past) > 0
        /\ Last(state.history.past).document = pre.document
        /\ (commits = 1 => Last(state.history.past) = pre)
        /\ redo(Machine).state = state
        /\ redo(Machine).emitted = <<>>

\* Escape has cancelled a session after an undo
C39_Witness ==
    /\ UiWritten
    /\ op.name = "escape"
    /\ Len(pre.history.future) > 0
    /\ state.history.future = <<>>
    /\ state.ui.showMentionPanel = FALSE
(***************************************************************************)
(* The entries of history.past: claim C40, under SpecHistory.              *)
(***************************************************************************)
\* the entries of before are in after as they were, but for the oldest
\* evicted ones, which the pushes made room for
KeptBut(before, after, evicted) ==
    /\ (evicted > 0 => Len(before) + commits > HistoryLimit)
    /\ \A i \in (evicted + 1)..Len(before) :
          /\ i - evicted <= Len(after)
          /\ after[i - evicted] = before[i]

\* C40: after an update, whatever it wrote, every entry that was in
\* history.past is still there with the content it had, unless it was
\* evicted as the oldest.
C40_PastImmutable ==
    Committed =>
        \E evicted \in 0..commits :
            KeptBut(pre.history.past, state.history.past, evicted)
====
